---- MODULE Spec2Model ----
(***************************************************************************)
(* Model of the agent pipeline of app.py: the SharedContextStore, the      *)
(* BusinessAnalystAgent and the ArchitectAgent.                            *)
(*                                                                         *)
(* Python values are tagged records [k |-> kind, v |-> payload]:           *)
(*   str  : v is the sequence of the characters of the string              *)
(*   int  : v is the number            bool : v is TRUE or FALSE           *)
(*   none : None                       list : v is the sequence of items   *)
(*   dict : v is the sequence of [key |-> characters, val |-> value]       *)
(*          items in insertion order (the order Python dicts keep)         *)
(* A text is a sequence of characters, each a one-character string; the    *)
(* backtick, which a TLA+ string cannot hold, is the character BQ.         *)
(***************************************************************************)
EXTENDS FiniteSets, Integers, Sequences, TLC

BQ == "BQ"

PyStr(chars) == [k |-> "str", v |-> chars]

PyInt(n) == [k |-> "int", v |-> n]

PyBool(b) == [k |-> "bool", v |-> b]

PyNone == [k |-> "none", v |-> 0]

PyList(items) == [k |-> "list", v |-> items]

PyDict(items) == [k |-> "dict", v |-> items]

(***************************************************************************)
(* dict operations                                                         *)
(***************************************************************************)
HasKey(d, key) == \E i \in 1..Len(d.v) : d.v[i].key = key

KeyIndex(d, key) == CHOOSE i \in 1..Len(d.v) : d.v[i].key = key

\* d[key] for a key that is present
DictItem(d, key) == d.v[KeyIndex(d, key)].val

\* d.get(key, default)
DictGet(d, key, default) == IF HasKey(d, key) THEN DictItem(d, key) ELSE default

\* d[key] = val: an existing key keeps its position, a new key goes last
DictSet(d, key, val) ==
  IF HasKey(d, key)
  THEN PyDict([d.v EXCEPT ![KeyIndex(d, key)] = [key |-> key, val |-> val]])
  ELSE PyDict(Append(d.v, [key |-> key, val |-> val]))

(***************************************************************************)
(* str operations                                                          *)
(***************************************************************************)
Whitespace == {" ", "\n"}

Digit == {"0", "1", "2", "3", "4", "5", "6", "7", "8", "9"}

DigitChar == <<"0", "1", "2", "3", "4", "5", "6", "7", "8", "9">>

DigitVal(c) == CHOOSE n \in 0..9 : DigitChar[n + 1] = c

\* s[i:i+len(p)] == p
HasAt(s, i, p) ==
  /\ i + Len(p) - 1 <= Len(s)
  /\ \A j \in 1..Len(p) : s[i + j - 1] = p[j]

\* s.startswith(p)
StartsWith(s, p) == HasAt(s, 1, p)

RECURSIVE LStrip(_)
LStrip(s) == IF s # <<>> /\ Head(s) \in Whitespace THEN LStrip(Tail(s)) ELSE s

RECURSIVE RStrip(_)
RStrip(s) ==
  IF s # <<>> /\ s[Len(s)] \in Whitespace THEN RStrip(SubSeq(s, 1, Len(s) - 1)) ELSE s

\* s.strip()
Strip(s) == RStrip(LStrip(s))

\* s.split(sep), scanning from position i with the part cur collected so far
RECURSIVE SplitFrom(_, _, _, _)
SplitFrom(s, sep, i, cur) ==
  IF i > Len(s) THEN <<cur>>
  ELSE IF HasAt(s, i, sep) THEN <<cur>> \o SplitFrom(s, sep, i + Len(sep), <<>>)
  ELSE SplitFrom(s, sep, i + 1, Append(cur, s[i]))

Split(s, sep) == SplitFrom(s, sep, 1, <<>>)

\* s[n:]
DropFirst(s, n) == SubSeq(s, n + 1, Len(s))

(***************************************************************************)
(* json.loads, for the JSON texts of the model: objects, arrays, strings   *)
(* without escapes, unsigned integers, null, true and false.  A scan       *)
(* yields [ok, val, pos]: pos is the index after the value.                *)
(***************************************************************************)
ScanFail == [ok |-> FALSE, val |-> PyNone, pos |-> 0]

ScanOk(val, pos) == [ok |-> TRUE, val |-> val, pos |-> pos]

RECURSIVE SkipWs(_, _)
SkipWs(s, i) == IF i <= Len(s) /\ s[i] \in Whitespace THEN SkipWs(s, i + 1) ELSE i

\* the string whose opening quote is before position i; a raw newline is a
\* control character, which the strict decoder rejects
RECURSIVE ScanString(_, _, _)
ScanString(s, i, acc) ==
  IF i > Len(s) THEN ScanFail
  ELSE IF s[i] = "\"" THEN ScanOk(PyStr(acc), i + 1)
  ELSE IF s[i] = "\n" THEN ScanFail
  ELSE ScanString(s, i + 1, Append(acc, s[i]))

RECURSIVE ScanDigits(_, _, _)
ScanDigits(s, i, n) ==
  IF i <= Len(s) /\ s[i] \in Digit THEN ScanDigits(s, i + 1, 10 * n + DigitVal(s[i]))
  ELSE ScanOk(PyInt(n), i)

\* 0|[1-9]\d*
ScanNumber(s, i) == IF s[i] = "0" THEN ScanOk(PyInt(0), i + 1) ELSE ScanDigits(s, i, 0)

RECURSIVE ScanOnce(_, _)
RECURSIVE ScanArray(_, _, _)
RECURSIVE ScanObject(_, _, _)

ScanOnce(s, i) ==
  IF i > Len(s) THEN ScanFail
  ELSE IF s[i] = "\"" THEN ScanString(s, i + 1, <<>>)
  ELSE IF s[i] = "{" THEN
    LET j == SkipWs(s, i + 1)
    IN  IF j <= Len(s) /\ s[j] = "}" THEN ScanOk(PyDict(<<>>), j + 1)
        ELSE ScanObject(s, j, PyDict(<<>>))
  ELSE IF s[i] = "[" THEN
    LET j == SkipWs(s, i + 1)
    IN  IF j <= Len(s) /\ s[j] = "]" THEN ScanOk(PyList(<<>>), j + 1)
        ELSE ScanArray(s, j, <<>>)
  ELSE IF HasAt(s, i, <<"n", "u", "l", "l">>) THEN ScanOk(PyNone, i + 4)
  ELSE IF HasAt(s, i, <<"t", "r", "u", "e">>) THEN ScanOk(PyBool(TRUE), i + 4)
  ELSE IF HasAt(s, i, <<"f", "a", "l", "s", "e">>) THEN ScanOk(PyBool(FALSE), i + 5)
  ELSE IF s[i] \in Digit THEN ScanNumber(s, i)
  ELSE ScanFail

\* the items of an array from position i on, acc the items read so far
ScanArray(s, i, acc) ==
  LET item == ScanOnce(s, i)
      e == SkipWs(s, item.pos)
  IN  IF ~item.ok \/ e > Len(s) THEN ScanFail
      ELSE IF s[e] = "]" THEN ScanOk(PyList(Append(acc, item.val)), e + 1)
      ELSE IF s[e] = "," THEN ScanArray(s, SkipWs(s, e + 1), Append(acc, item.val))
      ELSE ScanFail

\* the members of an object from position i on, acc the dict read so far
ScanObject(s, i, acc) ==
  IF ~(i <= Len(s) /\ s[i] = "\"") THEN ScanFail
  ELSE
    LET name == ScanString(s, i + 1, <<>>)
        c == SkipWs(s, name.pos)
    IN  IF ~name.ok \/ ~(c <= Len(s) /\ s[c] = ":") THEN ScanFail
        ELSE
          LET member == ScanOnce(s, SkipWs(s, c + 1))
              e == SkipWs(s, member.pos)
          IN  IF ~member.ok \/ e > Len(s) THEN ScanFail
              ELSE IF s[e] = "}"
                THEN ScanOk(DictSet(acc, name.val.v, member.val), e + 1)
              ELSE IF s[e] = ","
                THEN ScanObject(s, SkipWs(s, e + 1), DictSet(acc, name.val.v, member.val))
              ELSE ScanFail

\* json.loads(s): [ok |-> FALSE] stands for JSONDecodeError
JsonLoads(s) ==
  LET r == ScanOnce(s, SkipWs(s, 1))
  IN  IF r.ok /\ SkipWs(s, r.pos) = Len(s) + 1 THEN r ELSE ScanFail

(***************************************************************************)
(* json.dumps(v, indent=2) at nesting depth level.  The strings of the     *)
(* model hold no character that needs an escape.                           *)
(***************************************************************************)
Spaces(n) == [i \in 1..n |-> " "]

RECURSIVE IntDigits(_)
IntDigits(n) ==
  IF n < 10 THEN <<DigitChar[n + 1]>> ELSE IntDigits(n \div 10) \o <<DigitChar[(n % 10) + 1]>>

RECURSIVE JsonDumps(_, _)
RECURSIVE DumpItems(_, _, _, _)

\* the items i.. of a list or dict, one per line
DumpItems(v, i, level, acc) ==
  IF i > Len(v.v) THEN acc
  ELSE
    LET item == IF v.k = "dict"
                THEN <<"\"">> \o v.v[i].key \o <<"\"", ":", " ">> \o JsonDumps(v.v[i].val, level + 1)
                ELSE JsonDumps(v.v[i], level + 1)
        sep == IF i < Len(v.v) THEN <<",">> ELSE <<>>
    IN  DumpItems(v, i + 1, level, acc \o <<"\n">> \o Spaces(2 * (level + 1)) \o item \o sep)

JsonDumps(v, level) ==
  IF v.k = "str" THEN <<"\"">> \o v.v \o <<"\"">>
  ELSE IF v.k = "int" THEN IntDigits(v.v)
  ELSE IF v.k = "bool" THEN (IF v.v THEN <<"t", "r", "u", "e">> ELSE <<"f", "a", "l", "s", "e">>)
  ELSE IF v.k = "none" THEN <<"n", "u", "l", "l">>
  ELSE IF v.k = "list" THEN
    (IF v.v = <<>> THEN <<"[", "]">>
     ELSE <<"[">> \o DumpItems(v, 1, level, <<>>) \o <<"\n">> \o Spaces(2 * level) \o <<"]">>)
  ELSE
    (IF v.v = <<>> THEN <<"{", "}">>
     ELSE <<"{">> \o DumpItems(v, 1, level, <<>>) \o <<"\n">> \o Spaces(2 * level) \o <<"}">>)

(***************************************************************************)
(* Python truthiness and the len() of a value                              *)
(***************************************************************************)
Truthy(v) ==
  IF v.k = "none" THEN FALSE
  ELSE IF v.k = "bool" THEN v.v
  ELSE IF v.k = "int" THEN v.v # 0
  ELSE v.v # <<>>

PyLen(v) == Len(v.v)

\* lst[-1] of a non-empty list
\* mutant: lst[0]
LastItem_first(lst) == lst.v[1]

LastItem(lst) == lst.v[Len(lst.v)]

\* mutant: lst.insert(0, item)
ListAppend_front(lst, item) == PyList(<<item>> \o lst.v)

\* lst.append(item)
ListAppend(lst, item) == PyList(Append(lst.v, item))

(***************************************************************************)
(* SharedContextStore                                                      *)
(***************************************************************************)
K_id == <<"i", "d">>

K_data == <<"d", "a", "t", "a">>

K_error == <<"e", "r", "r", "o", "r">>

K_raw_response == <<"r", "a", "w", "_", "r", "e", "s", "p", "o", "n", "s", "e">>

K_user_stories == <<"u", "s", "e", "r", "_", "s", "t", "o", "r", "i", "e", "s">>

ARCHITECTURE == <<"a", "r", "c", "h", "i", "t", "e", "c", "t", "u", "r", "e">>

UML_CLASS_DIAGRAM == <<"u", "m", "l", "_", "c", "l", "a", "s", "s", "_", "d", "i", "a", "g", "r", "a", "m">>

\* SharedContextStore.__init__
NewContext ==
  [requirements |-> PyList(<<>>), user_stories |-> PyList(<<>>),
   design_artifacts |-> PyDict(<<>>), traceability |-> PyDict(<<>>)]

Entry(id, data) == PyDict(<<[key |-> K_id, val |-> id], [key |-> K_data, val |-> data]>>)

add_requirement(ctx, req_id, requirement) ==
  [ctx EXCEPT !.requirements = ListAppend(@, Entry(req_id, requirement))]

add_user_story(ctx, story_id, story) ==
  [ctx EXCEPT !.user_stories = ListAppend(@, Entry(story_id, story))]

add_design_artifact(ctx, artifact_type, artifact) ==
  LET known == IF ~HasKey(ctx.design_artifacts, artifact_type)
               THEN DictSet(ctx.design_artifacts, artifact_type, PyList(<<>>))
               ELSE ctx.design_artifacts
  IN  [ctx EXCEPT !.design_artifacts =
         DictSet(known, artifact_type, ListAppend(DictItem(known, artifact_type), artifact))]

get_requirements(ctx) == ctx.requirements

get_user_stories(ctx) == ctx.user_stories

\* artifact_type is a str, or None when the argument is left out
get_design_artifacts(ctx, artifact_type) ==
  IF Truthy(artifact_type)
  THEN DictGet(ctx.design_artifacts, artifact_type.v, PyList(<<>>))
  ELSE ctx.design_artifacts

(***************************************************************************)
(* What the four agent operations share: the chat, the fence stripping,    *)
(* the failure objects                                                     *)
(***************************************************************************)
FENCE == <<BQ, BQ, BQ>>

JSON_TAG == <<"j", "s", "o", "n">>

\* response.text.strip(), then the text between the first two fences
\* without a leading "json"
StripFence(text) ==
  LET stripped == Strip(text)
  IN  IF StartsWith(stripped, FENCE)
      THEN LET inner == Split(stripped, FENCE)[2]
           IN  IF StartsWith(inner, JSON_TAG) THEN DropFirst(inner, 4) ELSE inner
      ELSE stripped

\* a chat is None (started = FALSE) or the session start_chat(history=[]) made
NoChat == [started |-> FALSE, history |-> <<>>]

initialize_chat == [started |-> TRUE, history |-> <<>>]

\* mutant: every call starts a chat
EnsureChat_reset(chat) == initialize_chat

EnsureChat(chat) == IF ~chat.started THEN initialize_chat ELSE chat

\* chat.send_message(prompt): the exchange gains the prompt and the reply
send_message(chat, prompt, reply) ==
  [chat EXCEPT !.history = Append(@, [prompt |-> prompt, reply |-> reply])]

\* a prompt is a fixed template with one text embedded in it
Prompt(template, embedded) == [template |-> template, embedded |-> embedded]

\* the outcome of a call: a returned value or a raised exception
Return(v) == [exc |-> "none", ret |-> v]

Raise(e) == [exc |-> e, ret |-> PyNone]

\* mutant: raw_response is the stripped text
ParseFailure_stripped(message, text) ==
  PyDict(<<[key |-> K_error, val |-> PyStr(message)],
           [key |-> K_raw_response, val |-> PyStr(Strip(text))]>>)

ParseFailure(message, text) ==
  PyDict(<<[key |-> K_error, val |-> PyStr(message)],
           [key |-> K_raw_response, val |-> PyStr(text)]>>)

\* mutant: a bare return
PreconditionFailure_none(message) == PyNone

PreconditionFailure(message) == PyDict(<<[key |-> K_error, val |-> PyStr(message)]>>)

MSG_REQUIREMENTS == <<"F", "a", "i", "l", "e", "d", " ", "t", "o", " ", "p", "a", "r", "s", "e", " ", "r", "e", "q", "u", "i", "r", "e", "m", "e", "n", "t", "s">>

MSG_USER_STORIES == <<"F", "a", "i", "l", "e", "d", " ", "t", "o", " ", "p", "a", "r", "s", "e", " ", "u", "s", "e", "r", " ", "s", "t", "o", "r", "i", "e", "s">>

MSG_ARCHITECTURE == <<"F", "a", "i", "l", "e", "d", " ", "t", "o", " ", "p", "a", "r", "s", "e", " ", "a", "r", "c", "h", "i", "t", "e", "c", "t", "u", "r", "e", " ", "d", "e", "s", "i", "g", "n">>

MSG_UML == <<"F", "a", "i", "l", "e", "d", " ", "t", "o", " ", "p", "a", "r", "s", "e", " ", "U", "M", "L", " ", "d", "i", "a", "g", "r", "a", "m">>

MSG_NO_REQUIREMENTS == <<"N", "o", " ", "r", "e", "q", "u", "i", "r", "e", "m", "e", "n", "t", "s", " ", "a", "v", "a", "i", "l", "a", "b", "l", "e">>

MSG_NO_ARCHITECTURE == <<"N", "o", " ", "a", "r", "c", "h", "i", "t", "e", "c", "t", "u", "r", "e", " ", "d", "e", "s", "i", "g", "n", " ", "a", "v", "a", "i", "l", "a", "b", "l", "e">>

\* mutant: "00" + str(n)
Format03d_prefix(n) == <<"0", "0">> \o IntDigits(n)

\* f"{n:03d}"
Format03d(n) ==
  LET digits == IntDigits(n)
  IN  IF Len(digits) < 3 THEN [i \in 1..(3 - Len(digits)) |-> "0"] \o digits ELSE digits

\* f"REQ-{n:03d}"
ReqId(n) == PyStr(<<"R", "E", "Q", "-">> \o Format03d(n))

\* the items a for loop over v visits; v is a list, a dict (its keys) or a
\* str (its characters)
IterItems(v) ==
  IF v.k = "list" THEN v.v
  ELSE IF v.k = "dict" THEN [i \in 1..Len(v.v) |-> PyStr(v.v[i].key)]
  ELSE [i \in 1..Len(v.v) |-> PyStr(<<v.v[i]>>)]

\* mutant: the loop returns after its first story
AddStories_first(ctx, stories, i) ==
  IF i > Len(stories) THEN [ctx |-> ctx, exc |-> "none"]
  ELSE IF stories[i].k # "dict" THEN [ctx |-> ctx, exc |-> "TypeError"]
  ELSE IF ~HasKey(stories[i], K_id) THEN [ctx |-> ctx, exc |-> "KeyError"]
  ELSE [ctx |-> add_user_story(ctx, DictItem(stories[i], K_id), stories[i]), exc |-> "none"]

\* the loop of generate_user_stories from item i on: the stories stored
\* before a story without an 'id' stay stored
RECURSIVE AddStories(_, _, _)
AddStories(ctx, stories, i) ==
  IF i > Len(stories) THEN [ctx |-> ctx, exc |-> "none"]
  ELSE IF stories[i].k # "dict" THEN [ctx |-> ctx, exc |-> "TypeError"]
  ELSE IF ~HasKey(stories[i], K_id) THEN [ctx |-> ctx, exc |-> "KeyError"]
  ELSE AddStories(add_user_story(ctx, DictItem(stories[i], K_id), stories[i]), stories, i + 1)

\* for story in user_stories_data.get('user_stories', []): add_user_story(...)
StoreStories(ctx, user_stories_data) ==
  IF user_stories_data.k # "dict" THEN [ctx |-> ctx, exc |-> "AttributeError"]
  ELSE
    LET stories == DictGet(user_stories_data, K_user_stories, PyList(<<>>))
    IN  IF stories.k \notin {"list", "dict", "str"} THEN [ctx |-> ctx, exc |-> "TypeError"]
        ELSE AddStories(ctx, IterItems(stories), 1)

(***************************************************************************)
(* DiagramGenerator.  A diagram text is kept as the sequence of its lines: *)
(* every += of the source adds whole lines, each ended by a newline.       *)
(***************************************************************************)
Letters ==
  {"a", "b", "c", "d", "e", "f", "g", "h", "i", "j", "k", "l", "m",
   "n", "o", "p", "q", "r", "s", "t", "u", "v", "w", "x", "y", "z",
   "A", "B", "C", "D", "E", "F", "G", "H", "I", "J", "K", "L", "M",
   "N", "O", "P", "Q", "R", "S", "T", "U", "V", "W", "X", "Y", "Z"}

\* c.isalnum()
IsAlnum(c) == c \in Letters \cup Digit

\* c.isspace()
IsSpace(c) == c \in Whitespace

\* s.replace(c, '') for a character c
RemoveChar(s, c) == SelectSeq(s, LAMBDA x : x # c)

\* s.replace(c, d) for characters c and d
SubstChar(s, c, d) == [i \in 1..Len(s) |-> IF s[i] = c THEN d ELSE s[i]]

\* str(n)
IntStr(n) == IF n < 0 THEN <<"-">> \o IntDigits(0 - n) ELSE IntDigits(n)

\* range(a, b)
Range(a, b) == [k \in 1..(b - a) |-> a + k - 1]

Min(a, b) == IF a < b THEN a ELSE b

\* a str kept as its lines
MermaidText(lines) == [k |-> "mermaid", v |-> lines]

K_components == <<"c", "o", "m", "p", "o", "n", "e", "n", "t", "s">>

K_name == <<"n", "a", "m", "e">>

K_data_storage == <<"d", "a", "t", "a", "_", "s", "t", "o", "r", "a", "g", "e">>

K_databases == <<"d", "a", "t", "a", "b", "a", "s", "e", "s">>

\* f"comp{i}"
NodeId(i) == <<"c", "o", "m", "p">> \o IntStr(i)

\* the label of a component: no parentheses, underscores as spaces, then
\* only alphanumeric characters and spaces
ComponentLabel(name) ==
  SelectSeq(SubstChar(RemoveChar(RemoveChar(name, "("), ")"), "_", " "),
            LAMBDA c : IsAlnum(c) \/ IsSpace(c))

\* f"    {node_id}[\"{label}\"]"
NodeLine(i, component) ==
  <<" ", " ", " ", " ">> \o NodeId(i) \o <<"[", "\"">> \o ComponentLabel(DictItem(component, K_name).v)
    \o <<"\"", "]">>

SolidEdge(from, to) == <<" ", " ", " ", " ">> \o from \o <<" ", "-", "-", ">", " ">> \o to

DashedEdge(from, to) == <<" ", " ", " ", " ">> \o from \o <<" ", "-", ".", "-", ">", " ">> \o to

\* the edges among n components
ComponentEdges(n) ==
  IF n > 3
  THEN LET front == SelectSeq(Range(0, Min(4, n)), LAMBDA i : i < n - 4)
           back == Range(4, n - 1)
       IN  [j \in 1..Len(front) |-> SolidEdge(NodeId(front[j]), NodeId(Min(4, n - 1)))]
             \o [j \in 1..Len(back) |-> DashedEdge(NodeId(back[j]), NodeId(back[j] + 1))]
  ELSE LET chain == Range(0, n - 1)
       IN  [j \in 1..Len(chain) |-> SolidEdge(NodeId(chain[j]), NodeId(chain[j] + 1))]

DB == <<"d", "b">>

\* the node of the first database and the edges into it
StorageLines(storage, n) ==
  IF Truthy(DictGet(storage, K_databases, PyNone))
  THEN LET dbs == DictGet(storage, K_databases, PyList(<<>>))
           db_label == IF Truthy(dbs) THEN dbs.v[1].v ELSE <<"D", "a", "t", "a", "b", "a", "s", "e">>
           backend == Range(4, Min(n, 8))
       IN  <<<<" ", " ", " ", " ", "d", "b", "[", "(", "\"">> \o db_label \o <<"\"", ")", "]">>>>
             \o (IF n > 4
                 THEN [j \in 1..Len(backend) |-> SolidEdge(NodeId(backend[j]), DB)]
                 ELSE <<SolidEdge(NodeId(n - 1), DB)>>)
  ELSE <<>>

ClassDefLines ==
  <<<<>>,
    <<" ", " ", " ", " ", "c", "l", "a", "s", "s", "D", "e", "f", " ", "f", "r", "o", "n", "t", "e", "n", "d", " ", "f", "i", "l", "l", ":", "#", "e", "3", "f", "2", "f", "d", ",", "s", "t", "r", "o", "k", "e", ":", "#", "1", "9", "7", "6", "d", "2", ",", "s", "t", "r", "o", "k", "e", "-", "w", "i", "d", "t", "h", ":", "2", "p", "x">>,
    <<" ", " ", " ", " ", "c", "l", "a", "s", "s", "D", "e", "f", " ", "b", "a", "c", "k", "e", "n", "d", " ", "f", "i", "l", "l", ":", "#", "f", "f", "f", "3", "e", "0", ",", "s", "t", "r", "o", "k", "e", ":", "#", "f", "5", "7", "c", "0", "0", ",", "s", "t", "r", "o", "k", "e", "-", "w", "i", "d", "t", "h", ":", "2", "p", "x">>,
    <<" ", " ", " ", " ", "c", "l", "a", "s", "s", "D", "e", "f", " ", "d", "a", "t", "a", "b", "a", "s", "e", " ", "f", "i", "l", "l", ":", "#", "e", "8", "f", "5", "e", "9", ",", "s", "t", "r", "o", "k", "e", ":", "#", "3", "8", "8", "e", "3", "c", ",", "s", "t", "r", "o", "k", "e", "-", "w", "i", "d", "t", "h", ":", "2", "p", "x">>>>

\* f"    class {node} {style}"
StyleLine(node, style) == <<" ", " ", " ", " ", "c", "l", "a", "s", "s", " ">> \o node \o <<" ">> \o style

StyleLines(storage, n) ==
  LET front == Range(0, Min(4, n))
      back == Range(4, n)
  IN  [j \in 1..Len(front) |-> StyleLine(NodeId(front[j]), <<"f", "r", "o", "n", "t", "e", "n", "d">>)]
        \o [j \in 1..Len(back) |-> StyleLine(NodeId(back[j]), <<"b", "a", "c", "k", "e", "n", "d">>)]
        \o (IF Truthy(DictGet(storage, K_databases, PyNone))
            THEN <<StyleLine(DB, <<"d", "a", "t", "a", "b", "a", "s", "e">>)>> ELSE <<>>)

\* a component without a name ends the function in a KeyError
generate_architecture_diagram_mermaid(architecture) ==
  LET components == DictGet(architecture, K_components, PyList(<<>>)).v
      storage == DictGet(architecture, K_data_storage, PyDict(<<>>))
      n == Len(components)
  IN  IF \E i \in 1..n : ~HasKey(components[i], K_name) THEN Raise("KeyError")
      ELSE Return(MermaidText(
             <<<<"g", "r", "a", "p", "h", " ", "T", "B">>>>
               \o [i \in 1..n |-> NodeLine(i - 1, components[i])]
               \o ComponentEdges(n)
               \o StorageLines(storage, n)
               \o ClassDefLines
               \o StyleLines(storage, n)))

K_classes == <<"c", "l", "a", "s", "s", "e", "s">>

K_attributes == <<"a", "t", "t", "r", "i", "b", "u", "t", "e", "s">>

K_methods == <<"m", "e", "t", "h", "o", "d", "s">>

K_relationships == <<"r", "e", "l", "a", "t", "i", "o", "n", "s", "h", "i", "p", "s">>

K_visibility == <<"v", "i", "s", "i", "b", "i", "l", "i", "t", "y">>

K_type == <<"t", "y", "p", "e">>

K_return_type == <<"r", "e", "t", "u", "r", "n", "_", "t", "y", "p", "e">>

K_from == <<"f", "r", "o", "m">>

K_to == <<"t", "o">>

\* the first members a class block shows
MaxMembersShown == 5

\* seq[:n]
Take(seq, n) == SubSeq(seq, 1, Min(n, Len(seq)))

\* a class name: no spaces, no hyphens, then only alphanumeric characters
ClassName_replaced(name) == RemoveChar(RemoveChar(name, " "), "-")

ClassName(name) == SelectSeq(RemoveChar(RemoveChar(name, " "), "-"), IsAlnum)

\* '+' if member.get('visibility') == 'public' else '-'
Visibility(member) ==
  IF DictGet(member, K_visibility, PyNone) = PyStr(<<"p", "u", "b", "l", "i", "c">>) THEN "+" ELSE "-"

\* member.get(key, default).replace(' ', '')
MemberText_alnum(member, key, default) ==
  SelectSeq(DictGet(member, key, PyStr(default)).v, IsAlnum)

MemberText(member, key, default) ==
  RemoveChar(DictGet(member, key, PyStr(default)).v, " ")

\* f"        {visibility}{attr_type} {attr_name}"
AttributeLine(attr) ==
  <<" ", " ", " ", " ", " ", " ", " ", " ">> \o <<Visibility(attr)>> \o MemberText(attr, K_type, <<"S", "t", "r", "i", "n", "g">>)
    \o <<" ">> \o MemberText(attr, K_name, <<"a", "t", "t", "r", "i", "b", "u", "t", "e">>)

\* f"        {visibility}{method_name}() {return_type}"
MethodLine(method) ==
  <<" ", " ", " ", " ", " ", " ", " ", " ">> \o <<Visibility(method)>> \o MemberText(method, K_name, <<"m", "e", "t", "h", "o", "d">>)
    \o <<"(", ")", " ">> \o MemberText(method, K_return_type, <<"v", "o", "i", "d">>)

\* the block of one class
ClassBlock(cls) ==
  LET attributes == Take(DictGet(cls, K_attributes, PyList(<<>>)).v, MaxMembersShown)
      methods == Take(DictGet(cls, K_methods, PyList(<<>>)).v, MaxMembersShown)
  IN  <<<<" ", " ", " ", " ", "c", "l", "a", "s", "s", " ">> \o ClassName(DictItem(cls, K_name).v) \o <<" ", "{">>>>
        \o [i \in 1..Len(attributes) |-> AttributeLine(attributes[i])]
        \o [i \in 1..Len(methods) |-> MethodLine(methods[i])]
        \o <<<<" ", " ", " ", " ", "}">>>>

\* the line of one relationship
RelationshipLine_swapped(rel) ==
  LET from_cls == ClassName(DictItem(rel, K_from).v)
      to_cls == ClassName(DictItem(rel, K_to).v)
      rel_type == DictGet(rel, K_type, PyStr(<<"a", "s", "s", "o", "c", "i", "a", "t", "i", "o", "n">>))
  IN  <<" ", " ", " ", " ">> \o
      (IF rel_type = PyStr(<<"i", "n", "h", "e", "r", "i", "t", "a", "n", "c", "e">>) THEN from_cls \o <<" ", "<", "|", "-", "-", " ">> \o to_cls
       ELSE IF rel_type = PyStr(<<"c", "o", "m", "p", "o", "s", "i", "t", "i", "o", "n">>) THEN to_cls \o <<" ", "*", "-", "-", " ">> \o from_cls
       ELSE IF rel_type = PyStr(<<"a", "g", "g", "r", "e", "g", "a", "t", "i", "o", "n">>) THEN to_cls \o <<" ", "o", "-", "-", " ">> \o from_cls
       ELSE to_cls \o <<" ", "-", "-", ">", " ">> \o from_cls)

RelationshipLine(rel) ==
  LET from_cls == ClassName(DictItem(rel, K_from).v)
      to_cls == ClassName(DictItem(rel, K_to).v)
      rel_type == DictGet(rel, K_type, PyStr(<<"a", "s", "s", "o", "c", "i", "a", "t", "i", "o", "n">>))
  IN  <<" ", " ", " ", " ">> \o
      (IF rel_type = PyStr(<<"i", "n", "h", "e", "r", "i", "t", "a", "n", "c", "e">>) THEN to_cls \o <<" ", "<", "|", "-", "-", " ">> \o from_cls
       ELSE IF rel_type = PyStr(<<"c", "o", "m", "p", "o", "s", "i", "t", "i", "o", "n">>) THEN from_cls \o <<" ", "*", "-", "-", " ">> \o to_cls
       ELSE IF rel_type = PyStr(<<"a", "g", "g", "r", "e", "g", "a", "t", "i", "o", "n">>) THEN from_cls \o <<" ", "o", "-", "-", " ">> \o to_cls
       ELSE from_cls \o <<" ", "-", "-", ">", " ">> \o to_cls)

RECURSIVE Flatten(_)
Flatten(blocks) ==
  IF blocks = <<>> THEN <<>> ELSE Head(blocks) \o Flatten(Tail(blocks))

\* a class without a name, or a relationship without an end, ends the
\* function in a KeyError
generate_uml_diagram_mermaid(uml_data) ==
  LET classes == DictGet(uml_data, K_classes, PyList(<<>>)).v
      relationships == DictGet(uml_data, K_relationships, PyList(<<>>)).v
  IN  IF \/ \E i \in 1..Len(classes) : ~HasKey(classes[i], K_name)
         \/ \E i \in 1..Len(relationships) :
              ~HasKey(relationships[i], K_from) \/ ~HasKey(relationships[i], K_to)
      THEN Raise("KeyError")
      ELSE Return(MermaidText(
             <<<<"c", "l", "a", "s", "s", "D", "i", "a", "g", "r", "a", "m">>>>
               \o Flatten([i \in 1..Len(classes) |-> ClassBlock(classes[i])])
               \o [i \in 1..Len(relationships) |-> RelationshipLine(relationships[i])]))

(***************************************************************************)
(* Inputs                                                                  *)
(***************************************************************************)
\* a reply inside a fence with a language tag (tag may be empty)
Fenced(tag, payload) == FENCE \o tag \o <<"\n">> \o payload \o <<"\n">> \o FENCE

REQS_A == <<"{", "\"", "f", "u", "n", "c", "t", "i", "o", "n", "a", "l", "_", "r", "e", "q", "u", "i", "r", "e", "m", "e", "n", "t", "s", "\"", ":", "[", "{", "\"", "i", "d", "\"", ":", "\"", "F", "R", "-", "0", "0", "1", "\"", "}", "]", "}">>

REQS_B == <<"{", "\"", "c", "o", "n", "s", "t", "r", "a", "i", "n", "t", "s", "\"", ":", "[", "]", "}">>

STORIES_ONE == <<"{", "\"", "u", "s", "e", "r", "_", "s", "t", "o", "r", "i", "e", "s", "\"", ":", "[", "{", "\"", "i", "d", "\"", ":", "\"", "U", "S", "-", "0", "0", "1", "\"", ",", "\"", "l", "i", "n", "k", "e", "d", "_", "r", "e", "q", "u", "i", "r", "e", "m", "e", "n", "t", "s", "\"", ":", "[", "\"", "F", "R", "-", "0", "0", "1", "\"", "]", "}", "]", "}">>

STORIES_TWO == <<"{", "\"", "u", "s", "e", "r", "_", "s", "t", "o", "r", "i", "e", "s", "\"", ":", "[", "{", "\"", "i", "d", "\"", ":", "\"", "U", "S", "-", "0", "0", "2", "\"", "}", ",", "{", "\"", "i", "d", "\"", ":", "\"", "U", "S", "-", "0", "0", "3", "\"", ",", "\"", "l", "i", "n", "k", "e", "d", "_", "r", "e", "q", "u", "i", "r", "e", "m", "e", "n", "t", "s", "\"", ":", "[", "\"", "F", "R", "-", "9", "9", "9", "\"", "]", "}", "]", "}">>

STORIES_NO_ID == <<"{", "\"", "u", "s", "e", "r", "_", "s", "t", "o", "r", "i", "e", "s", "\"", ":", "[", "{", "\"", "i", "d", "\"", ":", "\"", "U", "S", "-", "0", "0", "4", "\"", "}", ",", "{", "\"", "a", "s", "_", "a", "\"", ":", "\"", "x", "\"", "}", "]", "}">>

STORIES_NUMBER == <<"{", "\"", "u", "s", "e", "r", "_", "s", "t", "o", "r", "i", "e", "s", "\"", ":", "1", "}">>

EMPTY_DICT == <<"{", "}">>

EMPTY_LIST == <<"[", "]">>

NULL == <<"n", "u", "l", "l">>

ARCH_A == <<"{", "\"", "c", "o", "m", "p", "o", "n", "e", "n", "t", "s", "\"", ":", "[", "{", "\"", "n", "a", "m", "e", "\"", ":", "\"", "W", "e", "b", "\"", "}", "]", ",", "\"", "d", "a", "t", "a", "_", "s", "t", "o", "r", "a", "g", "e", "\"", ":", "{", "\"", "d", "a", "t", "a", "b", "a", "s", "e", "s", "\"", ":", "[", "\"", "P", "G", "\"", "]", "}", "}">>

ARCH_B == <<"{", "\"", "c", "o", "m", "p", "o", "n", "e", "n", "t", "s", "\"", ":", "[", "]", "}">>

UML_A == <<"{", "\"", "c", "l", "a", "s", "s", "e", "s", "\"", ":", "[", "{", "\"", "n", "a", "m", "e", "\"", ":", "\"", "O", "r", "d", "e", "r", "\"", "}", "]", ",", "\"", "r", "e", "l", "a", "t", "i", "o", "n", "s", "h", "i", "p", "s", "\"", ":", "[", "]", "}">>

FENCE_IN_STRING == <<"{", "\"", "a", "\"", ":", "\"", BQ, BQ, BQ, "\"", "}">>

NOT_JSON == <<"n", "o", "t", " ", "j", "s", "o", "n">>

PADDED_NOT_JSON == <<" ", "n", "o", "t", " ", "j", "s", "o", "n", "\n">>

RAW_INPUT == <<"a", " ", "b", "o", "o", "k", " ", "s", "h", "o", "p">>

\* replies with every key the page of Phase 1 reads
REQS_FULL == <<"{", "\"", "f", "u", "n", "c", "t", "i", "o", "n", "a", "l", "_", "r", "e", "q", "u", "i", "r", "e", "m", "e", "n", "t", "s", "\"", ":", "[", "{", "\"", "i", "d", "\"", ":", "\"", "F", "R", "-", "0", "0", "1", "\"", ",", "\"", "p", "r", "i", "o", "r", "i", "t", "y", "\"", ":", "\"", "H", "i", "g", "h", "\"", ",", "\"", "d", "e", "s", "c", "r", "i", "p", "t", "i", "o", "n", "\"", ":", "\"", "s", "e", "l", "l", "\"", "}", "]", "}">>

STORIES_FULL == <<"{", "\"", "u", "s", "e", "r", "_", "s", "t", "o", "r", "i", "e", "s", "\"", ":", "[", "{", "\"", "i", "d", "\"", ":", "\"", "U", "S", "-", "0", "0", "1", "\"", ",", "\"", "p", "r", "i", "o", "r", "i", "t", "y", "\"", ":", "\"", "H", "i", "g", "h", "\"", ",", "\"", "s", "t", "o", "r", "y", "_", "p", "o", "i", "n", "t", "s", "\"", ":", "3", ",", "\"", "a", "s", "_", "a", "\"", ":", "\"", "a", "\"", ",", "\"", "i", "_", "w", "a", "n", "t", "\"", ":", "\"", "b", "\"", ",", "\"", "s", "o", "_", "t", "h", "a", "t", "\"", ":", "\"", "c", "\"", ",", "\"", "a", "c", "c", "e", "p", "t", "a", "n", "c", "e", "_", "c", "r", "i", "t", "e", "r", "i", "a", "\"", ":", "[", "]", ",", "\"", "l", "i", "n", "k", "e", "d", "_", "r", "e", "q", "u", "i", "r", "e", "m", "e", "n", "t", "s", "\"", ":", "[", "\"", "F", "R", "-", "0", "0", "1", "\"", "]", "}", "]", "}">>

SessionAnalyzeReplies == {REQS_FULL, REQS_B, NOT_JSON}

SessionStoryReplies == {STORIES_FULL, STORIES_NO_ID, NOT_JSON}

Arguments == {PyNone, PyDict(<<>>)}

AnalyzeReplies == {REQS_A, Fenced(JSON_TAG, REQS_B), PADDED_NOT_JSON}

StoryReplies == {STORIES_TWO, STORIES_NO_ID, NOT_JSON}

ArchitectureReplies == {ARCH_A, Fenced(<<>>, ARCH_B), NOT_JSON}

UmlReplies == {UML_A, NOT_JSON}

ArtifactTypes == {PyNone, PyStr(<<>>), PyStr(ARCHITECTURE), PyStr(<<"s", "e", "q", "u", "e", "n", "c", "e", "_", "d", "i", "a", "g", "r", "a", "m">>)}

PYTHON_TAG == <<"p", "y", "t", "h", "o", "n">>

Tags == {<<>>, JSON_TAG, PYTHON_TAG}

\* the JSON payloads a fence is put around
FencedPayloads == {REQS_A, FENCE_IN_STRING}

Replies ==
  {REQS_A, FENCE_IN_STRING, STORIES_ONE, STORIES_NO_ID, EMPTY_LIST, PADDED_NOT_JSON}
    \cup {Fenced(tag, payload) : tag \in Tags, payload \in FencedPayloads}

\* the replies to analyze_requirements in SpecIds
IdReplies == {REQS_A, NOT_JSON}

\* every reply text of the model
AllReplies ==
  AnalyzeReplies \cup StoryReplies \cup ArchitectureReplies \cup UmlReplies \cup Replies
    \cup IdReplies \cup SessionAnalyzeReplies \cup SessionStoryReplies

\* response_text after the stripping, handed to json.loads; the parse of a
\* reply of the model is computed once
ParsedReplies == [text \in AllReplies |-> JsonLoads(StripFence(text))]

ParseReply(text) ==
  IF text \in AllReplies THEN ParsedReplies[text] ELSE JsonLoads(StripFence(text))

(***************************************************************************)
(* State: the store shared by the two agents, the chat of each agent, and  *)
(* what a caller observes of the latest call: the call and its outcome.    *)
(***************************************************************************)
\* the components an architecture may hold
MaxComponents == 9

\* the members a class may hold
MaxMembers == 6

\* the relationships a class diagram may hold
MaxRelationships == 2

Pair(key, val) == [key |-> key, val |-> val]

K_technology == <<"t", "e", "c", "h", "n", "o", "l", "o", "g", "y">>

K_responsibility == <<"r", "e", "s", "p", "o", "n", "s", "i", "b", "i", "l", "i", "t", "y">>

ComponentNames(i) == IF i = 0 THEN <<"W", "e", "b", "_", "A", "p", "p", " ", "(", "U", "I", ")">> ELSE <<"S", "v", "c", " ">> \o IntStr(i)

Component(i) ==
  PyDict(<<Pair(K_name, PyStr(ComponentNames(i))),
           Pair(K_technology, PyStr(<<"G", "o">>)),
           Pair(K_responsibility, PyStr(<<"s", "e", "r", "v", "e">>))>>)

Storages ==
  {PyDict(<<>>),
   PyDict(<<Pair(K_databases, PyList(<<>>))>>),
   PyDict(<<Pair(K_databases, PyList(<<PyStr(<<"P", "o", "s", "t", "g", "r", "e", "S", "Q", "L">>)>>))>>),
   PyDict(<<Pair(K_databases, PyList(<<PyStr(<<"R", "e", "d", "i", "s">>), PyStr(<<"P", "o", "s", "t", "g", "r", "e", "S", "Q", "L">>)>>))>>)}

Architecture(n, storage) ==
  PyDict(<<Pair(K_components, PyList([i \in 1..n |-> Component(i - 1)]))>>
           \o (IF storage = PyDict(<<>>) THEN <<>> ELSE <<Pair(K_data_storage, storage)>>))

\* a component that names no technology
ARCH_BARE ==
  PyDict(<<Pair(K_components, PyList(<<PyDict(<<Pair(K_name, PyStr(<<"W", "e", "b">>))>>)>>))>>)

Architectures ==
  {Architecture(n, storage) : n \in 0..MaxComponents, storage \in Storages}
    \cup {ARCH_BARE, ParseFailure(MSG_ARCHITECTURE, NOT_JSON)}

ClassNames == {<<"O", "r", "d", "e", "r", " ", "(", "C", "o", "r", "e", ")">>, <<"U", "s", "e", "r", "-", "A", "c", "c", "o", "u", "n", "t">>, <<"C", "a", "r", "t", "_", "2">>}

Attributes(i) ==
  CASE i = 1 -> PyDict(<<Pair(K_name, PyStr(<<"i", "d">>)), Pair(K_type, PyStr(<<"i", "n", "t">>)),
                         Pair(K_visibility, PyStr(<<"p", "r", "i", "v", "a", "t", "e">>))>>)
    [] i = 2 -> PyDict(<<Pair(K_name, PyStr(<<"u", "s", "e", "r", "_", "i", "d">>)),
                         Pair(K_type, PyStr(<<"L", "i", "s", "t", "<", "S", "t", "r", "i", "n", "g", ">">>)),
                         Pair(K_visibility, PyStr(<<"p", "u", "b", "l", "i", "c">>))>>)
    [] i = 3 -> PyDict(<<Pair(K_name, PyStr(<<"t", "o", "t", "a", "l", " ", "p", "r", "i", "c", "e">>)),
                         Pair(K_type, PyStr(<<"M", "a", "p", " ", "E", "n", "t", "r", "y">>)),
                         Pair(K_visibility, PyStr(<<"p", "r", "o", "t", "e", "c", "t", "e", "d">>))>>)
    [] i = 4 -> PyDict(<<Pair(K_name, PyStr(<<"t", "a", "g", "s">>))>>)
    [] i = 5 -> PyDict(<<Pair(K_type, PyStr(<<"D", "a", "t", "e">>)),
                         Pair(K_visibility, PyStr(<<"P", "u", "b", "l", "i", "c">>))>>)
    [] OTHER -> PyDict(<<Pair(K_name, PyStr(<<"e", "x", "t", "r", "a">> \o IntStr(i))),
                         Pair(K_type, PyStr(<<"S", "t", "r", "i", "n", "g">>)),
                         Pair(K_visibility, PyStr(<<"p", "u", "b", "l", "i", "c">>))>>)

Methods(i) ==
  CASE i = 1 -> PyDict(<<Pair(K_name, PyStr(<<"g", "e", "t", "_", "t", "o", "t", "a", "l">>)),
                         Pair(K_return_type, PyStr(<<"f", "l", "o", "a", "t">>)),
                         Pair(K_visibility, PyStr(<<"p", "u", "b", "l", "i", "c">>))>>)
    [] i = 2 -> PyDict(<<Pair(K_name, PyStr(<<"a", "d", "d", " ", "i", "t", "e", "m">>)),
                         Pair(K_return_type, PyStr(<<"O", "p", "t", "i", "o", "n", "a", "l", "[", "O", "r", "d", "e", "r", " ", "I", "t", "e", "m", "]">>)),
                         Pair(K_visibility, PyStr(<<"p", "r", "i", "v", "a", "t", "e">>))>>)
    [] i = 3 -> PyDict(<<Pair(K_name, PyStr(<<"c", "l", "o", "s", "e">>))>>)
    [] i = 4 -> PyDict(<<Pair(K_return_type, PyStr(<<"b", "o", "o", "l">>)),
                         Pair(K_visibility, PyStr(<<"p", "u", "b", "l", "i", "c">>))>>)
    [] OTHER -> PyDict(<<Pair(K_name, PyStr(<<"s", "t", "e", "p">> \o IntStr(i))),
                         Pair(K_return_type, PyStr(<<"v", "o", "i", "d">>)),
                         Pair(K_visibility, PyStr(<<"p", "r", "o", "t", "e", "c", "t", "e", "d">>))>>)

Class(name, a, m) ==
  PyDict(<<Pair(K_name, PyStr(name)),
           Pair(K_attributes, PyList([i \in 1..a |-> Attributes(i)])),
           Pair(K_methods, PyList([i \in 1..m |-> Methods(i)]))>>)

RelationshipTypes ==
  {<<"i", "n", "h", "e", "r", "i", "t", "a", "n", "c", "e">>, <<"c", "o", "m", "p", "o", "s", "i", "t", "i", "o", "n">>, <<"a", "g", "g", "r", "e", "g", "a", "t", "i", "o", "n">>, <<"a", "s", "s", "o", "c", "i", "a", "t", "i", "o", "n">>, <<"d", "e", "p", "e", "n", "d", "e", "n", "c", "y">>}

Relationships ==
  {PyDict(<<Pair(K_from, PyStr(<<"O", "r", "d", "e", "r", " ", "(", "C", "o", "r", "e", ")">>)), Pair(K_to, PyStr(<<"U", "s", "e", "r", "-", "A", "c", "c", "o", "u", "n", "t">>)),
            Pair(K_type, PyStr(type))>> ) : type \in RelationshipTypes}
    \cup {PyDict(<<Pair(K_from, PyStr(<<"C", "a", "r", "t", "_", "2">>)), Pair(K_to, PyStr(<<"O", "r", "d", "e", "r", " ", "(", "C", "o", "r", "e", ")">>))>>)}

RelationshipLists ==
  UNION {[1..n -> Relationships] : n \in 0..MaxRelationships}

UmlData(classes, relationships) ==
  PyDict(<<Pair(K_classes, PyList(classes)), Pair(K_relationships, PyList(relationships))>>)

UML_PLAIN == UmlData(<<Class(<<"C", "a", "r", "t", "_", "2">>, 1, 1)>>, <<>>)

\* a class without a name
UML_NAMELESS == UmlData(<<PyDict(<<Pair(K_attributes, PyList(<<>>))>>)>>, <<>>)

UmlDiagrams ==
  {UmlData(<<Class(name, a, m)>>, <<>>) :
     name \in ClassNames, a \in 0..MaxMembers, m \in 0..MaxMembers}
    \cup {UmlData(<<Class(<<"O", "r", "d", "e", "r", " ", "(", "C", "o", "r", "e", ")">>, 1, 0), Class(<<"U", "s", "e", "r", "-", "A", "c", "c", "o", "u", "n", "t">>, 0, 1)>>, rels) :
            rels \in RelationshipLists}
    \cup {UML_NAMELESS}

\* the designs a session may show: one of the two artifacts varies
Designs ==
  {<<architecture, UML_PLAIN>> : architecture \in Architectures}
    \cup {<<Architecture(2, PyDict(<<>>)), uml_diagram>> : uml_diagram \in UmlDiagrams}

VARIABLES context, ba_chat, arch_chat, call, result, session, page

vars == <<context, ba_chat, arch_chat, call, result, session, page>>

\* sent: the call reached chat.send_message and reply was the answer
Call(op, arg, sent, reply) == [op |-> op, arg |-> arg, sent |-> sent, reply |-> reply]

\* st.session_state at the first run of main
NewSession ==
  [requirements |-> PyNone, user_stories |-> PyNone,
   architecture |-> PyNone, uml_diagram |-> PyNone]

\* what the panel of one diagram shows
BlankPanel == [code |-> PyNone, image |-> PyNone, warning |-> FALSE, error |-> FALSE]

BlankPage == [arch |-> BlankPanel, uml |-> BlankPanel]

Init ==
  /\ context = NewContext
  /\ ba_chat = NoChat
  /\ arch_chat = NoChat
  /\ call = Call("none", PyNone, FALSE, <<>>)
  /\ result = Return(PyNone)
  /\ session = NewSession
  /\ page = BlankPage

(***************************************************************************)
(* BusinessAnalystAgent                                                    *)
(***************************************************************************)
analyze_requirements(raw_input, reply) ==
  LET parsed == ParseReply(reply)
      req_id == ReqId(PyLen(get_requirements(context)) + 1)
  IN  /\ ba_chat' = send_message(EnsureChat(ba_chat),
                                 Prompt("analyze_requirements", raw_input), reply)
      /\ call' = Call("analyze_requirements", PyStr(raw_input), TRUE, reply)
      /\ IF parsed.ok
         THEN /\ context' = add_requirement(context, req_id, parsed.val)
              /\ result' = Return(parsed.val)
         ELSE /\ context' = context
              /\ result' = Return(ParseFailure(MSG_REQUIREMENTS, reply))
      /\ UNCHANGED <<arch_chat, session, page>>

\* requirements is a value, or None when the argument is left out
generate_user_stories(requirements, reply) ==
  LET all_reqs == get_requirements(context)
      given == IF requirements = PyNone
               THEN DictItem(LastItem(all_reqs), K_data) ELSE requirements
      parsed == ParseReply(reply)
      stored == StoreStories(context, parsed.val)
  IN  IF requirements = PyNone /\ ~Truthy(all_reqs)
      THEN /\ ba_chat' = EnsureChat(ba_chat)
           /\ call' = Call("generate_user_stories", requirements, FALSE, <<>>)
           /\ result' = Return(PreconditionFailure(MSG_NO_REQUIREMENTS))
           /\ UNCHANGED <<context, arch_chat, session, page>>
      ELSE /\ ba_chat' = send_message(EnsureChat(ba_chat),
                                      Prompt("generate_user_stories", JsonDumps(given, 0)), reply)
           /\ call' = Call("generate_user_stories", requirements, TRUE, reply)
           /\ IF parsed.ok
              THEN /\ context' = stored.ctx
                   /\ result' = IF stored.exc = "none" THEN Return(parsed.val)
                                ELSE Raise(stored.exc)
              ELSE /\ context' = context
                   /\ result' = Return(ParseFailure(MSG_USER_STORIES, reply))
           /\ UNCHANGED <<arch_chat, session, page>>

(***************************************************************************)
(* ArchitectAgent                                                          *)
(***************************************************************************)
generate_architecture_design(requirements, reply) ==
  LET all_reqs == get_requirements(context)
      given == IF requirements = PyNone
               THEN DictItem(LastItem(all_reqs), K_data) ELSE requirements
      parsed == ParseReply(reply)
  IN  IF requirements = PyNone /\ ~Truthy(all_reqs)
      THEN /\ arch_chat' = EnsureChat(arch_chat)
           /\ call' = Call("generate_architecture_design", requirements, FALSE, <<>>)
           /\ result' = Return(PreconditionFailure(MSG_NO_REQUIREMENTS))
           /\ UNCHANGED <<context, ba_chat, session, page>>
      ELSE /\ arch_chat' = send_message(EnsureChat(arch_chat),
                                        Prompt("generate_architecture_design", JsonDumps(given, 0)), reply)
           /\ call' = Call("generate_architecture_design", requirements, TRUE, reply)
           /\ IF parsed.ok
              THEN /\ context' = add_design_artifact(context, ARCHITECTURE, parsed.val)
                   /\ result' = Return(parsed.val)
              ELSE /\ context' = context
                   /\ result' = Return(ParseFailure(MSG_ARCHITECTURE, reply))
           /\ UNCHANGED <<ba_chat, session, page>>

\* architecture is a value, or None when the argument is left out
generate_uml_class_diagram(architecture, reply) ==
  LET arch_artifacts == get_design_artifacts(context, PyStr(ARCHITECTURE))
      given == IF architecture = PyNone THEN LastItem(arch_artifacts) ELSE architecture
      parsed == ParseReply(reply)
  IN  IF architecture = PyNone /\ ~Truthy(arch_artifacts)
      THEN /\ arch_chat' = EnsureChat(arch_chat)
           /\ call' = Call("generate_uml_class_diagram", architecture, FALSE, <<>>)
           /\ result' = Return(PreconditionFailure(MSG_NO_ARCHITECTURE))
           /\ UNCHANGED <<context, ba_chat, session, page>>
      ELSE /\ arch_chat' = send_message(EnsureChat(arch_chat),
                                        Prompt("generate_uml_class_diagram", JsonDumps(given, 0)), reply)
           /\ call' = Call("generate_uml_class_diagram", architecture, TRUE, reply)
           /\ IF parsed.ok
              THEN /\ context' = add_design_artifact(context, UML_CLASS_DIAGRAM, parsed.val)
                   /\ result' = Return(parsed.val)
              ELSE /\ context' = context
                   /\ result' = Return(ParseFailure(MSG_UML, reply))
           /\ UNCHANGED <<ba_chat, session, page>>

(***************************************************************************)
(* The getters of the store, called by a client of the store               *)
(***************************************************************************)
GetRequirements ==
  /\ call' = Call("get_requirements", PyNone, FALSE, <<>>)
  /\ result' = Return(get_requirements(context))
  /\ UNCHANGED <<context, ba_chat, arch_chat, session, page>>

GetUserStories ==
  /\ call' = Call("get_user_stories", PyNone, FALSE, <<>>)
  /\ result' = Return(get_user_stories(context))
  /\ UNCHANGED <<context, ba_chat, arch_chat, session, page>>

GetDesignArtifacts(artifact_type) ==
  /\ call' = Call("get_design_artifacts", artifact_type, FALSE, <<>>)
  /\ result' = Return(get_design_artifacts(context, artifact_type))
  /\ UNCHANGED <<context, ba_chat, arch_chat, session, page>>

(***************************************************************************)
(* A member of ArchitectAgent that a client calls by name                  *)
(***************************************************************************)
ArchitectAgentMethods ==
  {"__init__", "initialize_chat", "generate_architecture_design",
   "generate_uml_class_diagram"}

\* architect_agent.<name>(arg): a name the class does not define raises
\* AttributeError before any code of the agent runs
CallArchitectAgent(name, arg) ==
  /\ name \notin ArchitectAgentMethods
  /\ call' = Call(name, arg, FALSE, <<>>)
  /\ result' = Raise("AttributeError")
  /\ UNCHANGED <<context, ba_chat, arch_chat, session, page>>

(***************************************************************************)
(* main: a run of the script on the page of Phase 2, with a design in the  *)
(* session.                                                                *)
(***************************************************************************)
\* what requests.get does: it raises, or it gives a response
Responses ==
  {[raised |-> FALSE, status_code |-> 200, content |-> "png"],
   [raised |-> FALSE, status_code |-> 503, content |-> "html"],
   [raised |-> TRUE, status_code |-> 0, content |-> ""]}

HTTP_OK == 200

mermaid_to_image(mermaid_code, response) ==
  IF ~response.raised /\ response.status_code = HTTP_OK
  THEN Return([k |-> "bytes", v |-> response.content])
  ELSE Raise("Exception")

\* the tab "Architecture Overview" reads three keys of every component
OverviewTab(arch) ==
  LET components == DictGet(arch, K_components, PyList(<<>>)).v
  IN  IF \E i \in 1..Len(components) :
           \/ ~HasKey(components[i], K_name)
           \/ ~HasKey(components[i], K_technology)
           \/ ~HasKey(components[i], K_responsibility)
      THEN Raise("KeyError") ELSE Return(PyNone)

\* the two try blocks around a diagram: generated is the outcome of the
\* generator, response what the rendering service does when asked
DiagramPanel_imagefirst(generated, response) ==
  IF generated.exc # "none" \/ mermaid_to_image(generated.ret, response).exc # "none"
  THEN [BlankPanel EXCEPT !.error = TRUE]
  ELSE [BlankPanel EXCEPT !.code = generated.ret,
                          !.image = mermaid_to_image(generated.ret, response).ret]

DiagramPanel(generated, response) ==
  IF generated.exc # "none"
  THEN [BlankPanel EXCEPT !.error = TRUE]
  ELSE LET image == mermaid_to_image(generated.ret, response)
       IN  IF image.exc = "none"
           THEN [BlankPanel EXCEPT !.code = generated.ret, !.image = image.ret]
           ELSE [BlankPanel EXCEPT !.code = generated.ret, !.warning = TRUE]

\* the tabs of a design s, when the session holds one: the page they show
\* and how the run ends
DesignTabs(s, arch_response, uml_response) ==
  LET overview == OverviewTab(s.architecture)
  IN  IF ~(Truthy(s.architecture) /\ Truthy(s.uml_diagram))
      THEN [page |-> BlankPage, out |-> Return(PyNone)]
      ELSE IF overview.exc # "none"
      THEN [page |-> BlankPage, out |-> overview]
      ELSE [page |-> [arch |-> DiagramPanel(
                                 generate_architecture_diagram_mermaid(s.architecture),
                                 arch_response),
                      uml |-> DiagramPanel(
                                generate_uml_diagram_mermaid(s.uml_diagram),
                                uml_response)],
            out |-> Return(PyNone)]

\* a run without a click; arg holds the two responses of the rendering
\* service, for the record
ShowDesign(arch_response, uml_response) ==
  /\ Truthy(session.requirements)
  /\ Truthy(session.architecture) /\ Truthy(session.uml_diagram)
  /\ call' = Call("main", [k |-> "responses", v |-> <<arch_response, uml_response>>], FALSE, <<>>)
  /\ page' = DesignTabs(session, arch_response, uml_response).page
  /\ result' = DesignTabs(session, arch_response, uml_response).out
  /\ UNCHANGED <<context, ba_chat, arch_chat, session>>

(***************************************************************************)
(* The operations of the agents as main calls them in one run: each takes  *)
(* the store and the chat of the agent and gives the store and the chat    *)
(* after the call and its outcome.                                         *)
(***************************************************************************)
Ran(ctx, chat, sent, out) == [ctx |-> ctx, chat |-> chat, sent |-> sent, out |-> out]

RunAnalyzeRequirements(ctx, chat, raw_input, reply) ==
  LET parsed == ParseReply(reply)
      req_id == ReqId(PyLen(get_requirements(ctx)) + 1)
      sent == send_message(EnsureChat(chat), Prompt("analyze_requirements", raw_input), reply)
  IN  IF parsed.ok
      THEN Ran(add_requirement(ctx, req_id, parsed.val), sent, TRUE, Return(parsed.val))
      ELSE Ran(ctx, sent, TRUE, Return(ParseFailure(MSG_REQUIREMENTS, reply)))

\* generate_user_stories() without an argument
RunGenerateUserStories(ctx, chat, reply) ==
  LET all_reqs == get_requirements(ctx)
      given == DictItem(LastItem(all_reqs), K_data)
      parsed == ParseReply(reply)
      stored == StoreStories(ctx, parsed.val)
      sent == send_message(EnsureChat(chat),
                           Prompt("generate_user_stories", JsonDumps(given, 0)), reply)
  IN  IF ~Truthy(all_reqs)
      THEN Ran(ctx, EnsureChat(chat), FALSE, Return(PreconditionFailure(MSG_NO_REQUIREMENTS)))
      ELSE IF parsed.ok
      THEN Ran(stored.ctx, sent, TRUE,
               IF stored.exc = "none" THEN Return(parsed.val) ELSE Raise(stored.exc))
      ELSE Ran(ctx, sent, TRUE, Return(ParseFailure(MSG_USER_STORIES, reply)))

\* generate_architecture_design() without an argument
RunGenerateArchitectureDesign(ctx, chat, reply) ==
  LET all_reqs == get_requirements(ctx)
      given == DictItem(LastItem(all_reqs), K_data)
      parsed == ParseReply(reply)
      sent == send_message(EnsureChat(chat),
                           Prompt("generate_architecture_design", JsonDumps(given, 0)), reply)
  IN  IF ~Truthy(all_reqs)
      THEN Ran(ctx, EnsureChat(chat), FALSE, Return(PreconditionFailure(MSG_NO_REQUIREMENTS)))
      ELSE IF parsed.ok
      THEN Ran(add_design_artifact(ctx, ARCHITECTURE, parsed.val), sent, TRUE,
               Return(parsed.val))
      ELSE Ran(ctx, sent, TRUE, Return(ParseFailure(MSG_ARCHITECTURE, reply)))

\* generate_uml_class_diagram() without an argument
RunGenerateUmlClassDiagram(ctx, chat, reply) ==
  LET arch_artifacts == get_design_artifacts(ctx, PyStr(ARCHITECTURE))
      given == LastItem(arch_artifacts)
      parsed == ParseReply(reply)
      sent == send_message(EnsureChat(chat),
                           Prompt("generate_uml_class_diagram", JsonDumps(given, 0)), reply)
  IN  IF ~Truthy(arch_artifacts)
      THEN Ran(ctx, EnsureChat(chat), FALSE, Return(PreconditionFailure(MSG_NO_ARCHITECTURE)))
      ELSE IF parsed.ok
      THEN Ran(add_design_artifact(ctx, UML_CLASS_DIAGRAM, parsed.val), sent, TRUE,
               Return(parsed.val))
      ELSE Ran(ctx, sent, TRUE, Return(ParseFailure(MSG_UML, reply)))

(***************************************************************************)
(* main: the runs of the script that a click starts.  Each click makes its *)
(* own agent; ba_chat and arch_chat hold the chat of the agent of the      *)
(* latest click.                                                           *)
(***************************************************************************)
K_functional_requirements == <<"f", "u", "n", "c", "t", "i", "o", "n", "a", "l", "_", "r", "e", "q", "u", "i", "r", "e", "m", "e", "n", "t", "s">>

K_non_functional_requirements == <<"n", "o", "n", "_", "f", "u", "n", "c", "t", "i", "o", "n", "a", "l", "_", "r", "e", "q", "u", "i", "r", "e", "m", "e", "n", "t", "s">>

K_priority == <<"p", "r", "i", "o", "r", "i", "t", "y">>

K_description == <<"d", "e", "s", "c", "r", "i", "p", "t", "i", "o", "n">>

FunctionalKeys == {K_id, K_priority, K_description}

NonFunctionalKeys == {K_id, K_type, K_description}

StoryKeys ==
  {K_id, K_priority, <<"s", "t", "o", "r", "y", "_", "p", "o", "i", "n", "t", "s">>, <<"a", "s", "_", "a">>, <<"i", "_", "w", "a", "n", "t">>, <<"s", "o", "_", "t", "h", "a", "t">>,
   <<"a", "c", "c", "e", "p", "t", "a", "n", "c", "e", "_", "c", "r", "i", "t", "e", "r", "i", "a">>, <<"l", "i", "n", "k", "e", "d", "_", "r", "e", "q", "u", "i", "r", "e", "m", "e", "n", "t", "s">>}

\* some item of the list under key lacks one of the keys the page reads
LacksKey(value, key, keys) ==
  LET items == DictGet(value, key, PyList(<<>>)).v
  IN  \E i \in 1..Len(items) : \E k \in keys : ~HasKey(items[i], k)

\* the tabs of the analysis results of a session s: how the run ends
AnalysisTabs(s) ==
  IF ~(Truthy(s.requirements) /\ Truthy(s.user_stories)) THEN Return(PyNone)
  ELSE IF \/ LacksKey(s.requirements, K_functional_requirements, FunctionalKeys)
          \/ LacksKey(s.requirements, K_non_functional_requirements, NonFunctionalKeys)
          \/ LacksKey(s.user_stories, K_user_stories, StoryKeys)
       THEN Raise("KeyError")
       ELSE Return(PyNone)

\* a click on "Analyze Requirements" with a text in the input area: the
\* analysis, then the stories, then the tabs of the results
AnalyzeClick(raw_input, reply, story_reply) ==
  \E analysed \in {RunAnalyzeRequirements(context, NoChat, raw_input, reply)} :
    \E stories \in {RunGenerateUserStories(analysed.ctx, analysed.chat, story_reply)} :
      \E after \in {[session EXCEPT
                       !.requirements = analysed.out.ret,
                       !.user_stories = IF stories.out.exc = "none"
                                        THEN stories.out.ret ELSE @]} :
        /\ raw_input # <<>>
        /\ context' = stories.ctx
        /\ ba_chat' = stories.chat
        /\ session' = after
        /\ call' = Call("analyze_btn", PyStr(raw_input), TRUE,
                        IF stories.sent THEN story_reply ELSE reply)
        /\ result' = IF stories.out.exc # "none" THEN stories.out ELSE AnalysisTabs(after)
        /\ page' = BlankPage
        /\ UNCHANGED arch_chat

\* a click on "Generate Architecture", which the page of Phase 2 offers
\* when the session holds a requirements result: the architecture, then the
\* class diagram, then the tabs of the design
DesignClick(reply, uml_reply, arch_response, uml_response) ==
  \E designed \in {RunGenerateArchitectureDesign(context, NoChat, reply)} :
    \E drawn \in {RunGenerateUmlClassDiagram(designed.ctx, designed.chat, uml_reply)} :
      \E after \in {[session EXCEPT !.architecture = designed.out.ret,
                                    !.uml_diagram = drawn.out.ret]} :
        \E tabs \in {DesignTabs(after, arch_response, uml_response)} :
          /\ Truthy(session.requirements)
          /\ context' = drawn.ctx
          /\ arch_chat' = drawn.chat
          /\ session' = after
          /\ call' = Call("design_btn", PyNone, designed.sent \/ drawn.sent,
                          IF drawn.sent THEN uml_reply
                          ELSE IF designed.sent THEN reply ELSE <<>>)
          /\ result' = tabs.out
          /\ page' = tabs.page
          /\ UNCHANGED ba_chat

\* the calls a chat may hold in Spec
MaxCalls == 3

Calls == Len(ba_chat.history) + Len(arch_chat.history)

AnalyzeRequirements ==
  \E reply \in AnalyzeReplies :
    Calls < MaxCalls /\ analyze_requirements(RAW_INPUT, reply)

GenerateUserStories ==
  \E requirements \in Arguments, reply \in StoryReplies :
    Calls < MaxCalls /\ generate_user_stories(requirements, reply)

GenerateArchitectureDesign ==
  \E requirements \in Arguments, reply \in ArchitectureReplies :
    Calls < MaxCalls /\ generate_architecture_design(requirements, reply)

GenerateUmlClassDiagram ==
  \E architecture \in Arguments, reply \in UmlReplies :
    Calls < MaxCalls /\ generate_uml_class_diagram(architecture, reply)

StoreGetters ==
  \/ GetRequirements
  \/ GetUserStories
  \/ \E artifact_type \in ArtifactTypes : GetDesignArtifacts(artifact_type)

VerifyDesign ==
  \E requirements \in Arguments : CallArchitectAgent("verify_design", requirements)

Next ==
  \/ AnalyzeRequirements
  \/ GenerateUserStories
  \/ GenerateArchitectureDesign
  \/ GenerateUmlClassDiagram
  \/ StoreGetters
  \/ VerifyDesign

Spec == Init /\ [][Next]_vars

(***************************************************************************)
(* SpecReplies: few calls, over the kinds of reply the remote model can    *)
(* give: bare and fenced JSON of the expected and of other shapes, and     *)
(* text that is not JSON.                                                  *)
(***************************************************************************)
MaxReplyCalls == 2

AnalyzeAnyReply ==
  \E reply \in Replies :
    Calls < MaxReplyCalls /\ analyze_requirements(RAW_INPUT, reply)

StoriesAnyReply ==
  \E requirements \in Arguments, reply \in Replies :
    Calls < MaxReplyCalls /\ generate_user_stories(requirements, reply)

ArchitectureAnyReply ==
  \E requirements \in Arguments, reply \in Replies :
    Calls < MaxReplyCalls /\ generate_architecture_design(requirements, reply)

UmlAnyReply ==
  \E architecture \in Arguments, reply \in Replies :
    Calls < MaxReplyCalls /\ generate_uml_class_diagram(architecture, reply)

NextReplies ==
  \/ AnalyzeAnyReply
  \/ StoriesAnyReply
  \/ ArchitectureAnyReply
  \/ UmlAnyReply

SpecReplies == Init /\ [][NextReplies]_vars

(***************************************************************************)
(* SpecIds: many analyses, so that the sequence number of a requirement id *)
(* reaches two digits, next to an operation that adds no requirement set.  *)
(***************************************************************************)
MaxIdCalls == 11

MaxIdArchCalls == 1

AnalyzeForIds ==
  \E reply \in IdReplies :
    Len(ba_chat.history) < MaxIdCalls /\ analyze_requirements(RAW_INPUT, reply)

ArchitectureForIds ==
  Len(arch_chat.history) < MaxIdArchCalls /\ generate_architecture_design(PyNone, ARCH_A)

NextIds ==
  \/ AnalyzeForIds
  \/ ArchitectureForIds

SpecIds == Init /\ [][NextIds]_vars

(***************************************************************************)
(* SpecRender: the script runs on a session that holds a design, the       *)
(* state a click on "Generate Architecture" leaves, and the rendering      *)
(* service answers in any of its ways.                                     *)
(***************************************************************************)
DesignSession(design) ==
  [requirements |-> ParseReply(REQS_A).val,
   user_stories |-> ParseReply(STORIES_TWO).val,
   architecture |-> design[1],
   uml_diagram |-> design[2]]

\* the store after the analysis, the stories and the design of the session
DesignContext(design) ==
  add_design_artifact(
    add_design_artifact(
      StoreStories(add_requirement(NewContext, ReqId(1), ParseReply(REQS_A).val),
                   ParseReply(STORIES_TWO).val).ctx,
      ARCHITECTURE, design[1]),
    UML_CLASS_DIAGRAM, design[2])

InitRender ==
  \E design \in Designs :
    /\ context = DesignContext(design)
    /\ ba_chat = NoChat
    /\ arch_chat = NoChat
    /\ call = Call("none", PyNone, FALSE, <<>>)
    /\ result = Return(PyNone)
    /\ session = DesignSession(design)
    /\ page = BlankPage

Render ==
  \E arch_response \in Responses, uml_response \in Responses :
    ShowDesign(arch_response, uml_response)

NextRender == Render

SpecRender == InitRender /\ [][NextRender]_vars

(***************************************************************************)
(* SpecSession: the clicks of a user on the two pages, from a new session. *)
(***************************************************************************)
\* the entries the store may hold in SpecSession
MaxStored == 3

Stored ==
  Len(context.requirements.v) + Len(context.user_stories.v)
    + PyLen(get_design_artifacts(context, PyStr(ARCHITECTURE)))
    + PyLen(get_design_artifacts(context, PyStr(UML_CLASS_DIAGRAM)))

ClickAnalyze ==
  \E reply \in SessionAnalyzeReplies, story_reply \in SessionStoryReplies :
    Stored < MaxStored /\ AnalyzeClick(RAW_INPUT, reply, story_reply)

ClickDesign ==
  \E reply \in ArchitectureReplies, uml_reply \in UmlReplies,
     arch_response \in Responses, uml_response \in Responses :
    Stored < MaxStored /\ DesignClick(reply, uml_reply, arch_response, uml_response)

NextSession ==
  \/ ClickAnalyze
  \/ ClickDesign

SpecSession == Init /\ [][NextSession]_vars

(***************************************************************************)
(* Properties                                                              *)
(***************************************************************************)
AgentOps ==
  {"analyze_requirements", "generate_user_stories",
   "generate_architecture_design", "generate_uml_class_diagram"}

\* the operations that return the parsed reply as it is
ArtifactOps == AgentOps \ {"generate_user_stories"}

\* {error: ...}: what a caller takes for a failure
IsFailureObject(v) == v.k = "dict" /\ HasKey(v, K_error)

\* the reply of the latest call is JSON once the code has stripped it
ReplyParses(c) == ParseReply(c.reply).ok

\* C1: whatever the reply, an agent operation ends by returning a value (the
\* artifact or a failure object) and never by raising an exception.
C1_NeverAnUnhandledFault == call.op \in AgentOps => result.exc = "none"

\* C2: in a step of an agent operation whose reply is not JSON after the
\* fence stripping, the operation returns a failure object whose raw_response
\* is the reply text as received, and the store stays as it was.
C2_ParseFailureReturnsRawReply ==
  [][(call'.op \in AgentOps /\ call'.sent /\ ~ReplyParses(call'))
       => /\ result'.exc = "none"
          /\ IsFailureObject(result'.ret)
          /\ HasKey(result'.ret, K_raw_response)
          /\ DictItem(result'.ret, K_raw_response) = PyStr(call'.reply)
          /\ context' = context]_vars

\* C2 happens: a reply with surrounding whitespace that is not JSON came
\* back as raw_response, whitespace included, with a requirement set stored
C2_Witness ==
  /\ call.op = "generate_user_stories" /\ call.sent /\ ~ReplyParses(call)
  /\ Strip(call.reply) # call.reply
  /\ IsFailureObject(result.ret)
  /\ DictItem(result.ret, K_raw_response) = PyStr(call.reply)
  /\ Truthy(context.requirements)

ValidPayloads == {payload \in FencedPayloads : JsonLoads(payload).ok}

\* C3: a JSON payload alone and the same payload between a ```json line and
\* a ``` line are parsed to the same value, the value of the payload.
C3_FencedParsesAsBare ==
  \A payload \in ValidPayloads :
    (call.op \in ArtifactOps /\ call.sent
       /\ call.reply \in {payload, Fenced(JSON_TAG, payload)})
      => result = Return(JsonLoads(payload).val)

\* the payloads that hold no fence of their own
PlainPayloads == {payload \in ValidPayloads : Len(Split(payload, FENCE)) = 1}

\* C4: a fence-free JSON payload between a ```<tag> line, for any language
\* tag or none, and a ``` line is parsed to the value of the payload and the
\* operation succeeds.
C4_AnyLanguageTagStripped ==
  \A payload \in PlainPayloads, tag \in Tags :
    (call.op \in ArtifactOps /\ call.sent /\ call.reply = Fenced(tag, payload))
      => result = Return(JsonLoads(payload).val)

ReturnsFailure(outcome) == outcome.exc = "none" /\ IsFailureObject(outcome.ret)

\* C5: a step of an operation called without argument while the artifact it
\* needs is absent (no requirement set for generate_user_stories and
\* generate_architecture_design, no architecture for
\* generate_uml_class_diagram) returns a failure object and leaves the store
\* as it was.
C5_MissingArtifactIsAFailure ==
  [][/\ (/\ call'.op \in {"generate_user_stories", "generate_architecture_design"}
         /\ call'.arg = PyNone
         /\ context.requirements.v = <<>>)
          => (ReturnsFailure(result') /\ context' = context)
     /\ (/\ call'.op = "generate_uml_class_diagram"
         /\ call'.arg = PyNone
         /\ ~HasKey(context.design_artifacts, ARCHITECTURE))
          => (ReturnsFailure(result') /\ context' = context)]_vars

\* C5 happens: the UML operation was refused for want of an architecture,
\* in a store that holds a requirement set
C5_Witness ==
  /\ call.op = "generate_uml_class_diagram" /\ call.arg = PyNone /\ ~call.sent
  /\ IsFailureObject(result.ret)
  /\ context.requirements.v # <<>>
  /\ ~HasKey(context.design_artifacts, ARCHITECTURE)

\* the text embedded in the prompt of the latest exchange of a chat
LatestEmbedded(chat) == chat.history[Len(chat.history)].prompt.embedded

\* the text is the JSON of the value
Carries(text, value) == JsonLoads(text).ok /\ JsonLoads(text).val = value

LatestRequirementData ==
  DictItem(context.requirements.v[Len(context.requirements.v)], K_data)

LatestArchitecture ==
  LET architectures == DictItem(context.design_artifacts, ARCHITECTURE).v
  IN  architectures[Len(architectures)]

\* C6: the prompt an operation sends carries its argument when one is given,
\* and otherwise the last stored artifact of the type it works from: the
\* data of the last requirement set for generate_user_stories and
\* generate_architecture_design, the last architecture for
\* generate_uml_class_diagram.
C6_DefaultIsTheLatestArtifact ==
  /\ (call.op = "generate_user_stories" /\ call.sent)
       => Carries(LatestEmbedded(ba_chat),
                  IF call.arg = PyNone THEN LatestRequirementData ELSE call.arg)
  /\ (call.op = "generate_architecture_design" /\ call.sent)
       => Carries(LatestEmbedded(arch_chat),
                  IF call.arg = PyNone THEN LatestRequirementData ELSE call.arg)
  /\ (call.op = "generate_uml_class_diagram" /\ call.sent)
       => Carries(LatestEmbedded(arch_chat),
                  IF call.arg = PyNone THEN LatestArchitecture ELSE call.arg)

\* C6 happens: user stories were asked for without argument in a store whose
\* two requirement sets differ, and the prompt carried the second
C6_Witness ==
  /\ call.op = "generate_user_stories" /\ call.sent /\ call.arg = PyNone
  /\ Len(context.requirements.v) = 2
  /\ DictItem(context.requirements.v[1], K_data) # LatestRequirementData
  /\ Carries(LatestEmbedded(ba_chat), LatestRequirementData)

IsPrefix(a, b) == Len(a) <= Len(b) /\ SubSeq(b, 1, Len(a)) = a

\* the list of a design-artifact type, empty for a type not yet added
ArtifactsOf(ctx, type) == DictGet(ctx.design_artifacts, type, PyList(<<>>)).v

\* C7: in every step each list of the store keeps the entries it had, in
\* their order, with new entries after them; the entry analyze_requirements
\* or a design operation adds is the last of its list; and a getter returns
\* the list as it is.
C7_ListsGrowAtTheEnd ==
  [][/\ IsPrefix(context.requirements.v, context'.requirements.v)
     /\ IsPrefix(context.user_stories.v, context'.user_stories.v)
     /\ \A i \in 1..Len(context.design_artifacts.v) :
          /\ i <= Len(context'.design_artifacts.v)
          /\ context'.design_artifacts.v[i].key = context.design_artifacts.v[i].key
          /\ IsPrefix(context.design_artifacts.v[i].val.v, context'.design_artifacts.v[i].val.v)
     /\ context'.requirements # context.requirements
          => /\ Len(context'.requirements.v) = Len(context.requirements.v) + 1
             /\ DictItem(context'.requirements.v[Len(context'.requirements.v)], K_data)
                  = result'.ret
     /\ \A type \in {ARCHITECTURE, UML_CLASS_DIAGRAM} :
          ArtifactsOf(context', type) # ArtifactsOf(context, type)
            => ArtifactsOf(context', type) = Append(ArtifactsOf(context, type), result'.ret)
     /\ call'.op = "get_requirements" => result'.ret = context.requirements
     /\ call'.op = "get_user_stories" => result'.ret = context.user_stories
     /\ (call'.op = "get_design_artifacts" /\ call'.arg = PyStr(ARCHITECTURE))
          => result'.ret.v = ArtifactsOf(context, ARCHITECTURE)]_vars

\* C7 happens: get_requirements returned two different requirement sets, the
\* later one last
C7_Witness ==
  /\ call.op = "get_requirements"
  /\ result.ret = context.requirements
  /\ Len(result.ret.v) = 2
  /\ DictItem(result.ret.v[1], K_data) = JsonLoads(REQS_A).val
  /\ DictItem(result.ret.v[2], K_data) = JsonLoads(REQS_B).val

\* C8: get_design_artifacts for a type that was never added returns an empty
\* collection and raises nothing. (That it leaves the store alone is part of
\* the getter's action.)
C8_UnknownTypeGivesNothing ==
  (/\ call.op = "get_design_artifacts"
   /\ call.arg.k = "str"
   /\ ~HasKey(context.design_artifacts, call.arg.v))
    => (result.exc = "none" /\ result.ret.v = <<>>)

\* "REQ-" and the three decimal digits of k, for k below 1000
ExpectedReqId(k) ==
  PyStr(<<"R", "E", "Q", "-", DigitChar[(k \div 100) + 1],
          DigitChar[((k \div 10) % 10) + 1], DigitChar[(k % 10) + 1]>>)

\* C9: the k-th stored requirement set has the id REQ-<k in three digits>, so
\* the ids are pairwise distinct, however many analyses failed in between.
C9_RequirementIdsCountUp ==
  /\ \A k \in 1..Len(context.requirements.v) :
       DictItem(context.requirements.v[k], K_id) = ExpectedReqId(k)
  /\ \A j, k \in 1..Len(context.requirements.v) :
       j # k => DictItem(context.requirements.v[j], K_id)
                  # DictItem(context.requirements.v[k], K_id)

\* C9 happens: ten requirement sets are stored, the tenth as REQ-010, after
\* an analysis that failed
C9_Witness ==
  /\ Len(context.requirements.v) = 10
  /\ Len(ba_chat.history) = 11
  /\ DictItem(context.requirements.v[10], K_id) = PyStr(<<"R", "E", "Q", "-", "0", "1", "0">>)
  /\ arch_chat.history # <<>>

\* C10: a step of generate_user_stories that returns the parsed reply adds
\* to the user stories, after those already there, one entry per story of
\* the reply in the order of the reply, each {id: the story's id, data: the
\* story}; nothing else of the store changes, whatever the stories link to.
C10_EveryStoryStoredAsReplied ==
  [][(/\ call'.op = "generate_user_stories" /\ call'.sent
      /\ ReplyParses(call') /\ result'.exc = "none")
       => LET stories == DictGet(result'.ret, K_user_stories, PyList(<<>>)).v
              before == context.user_stories.v
              after == context'.user_stories.v
          IN  /\ result'.ret = JsonLoads(StripFence(call'.reply)).val
              /\ Len(after) = Len(before) + Len(stories)
              /\ IsPrefix(before, after)
              /\ \A i \in 1..Len(stories) :
                   after[Len(before) + i] =
                     PyDict(<<[key |-> K_id, val |-> DictItem(stories[i], K_id)],
                              [key |-> K_data, val |-> stories[i]]>>)
              /\ context'.requirements = context.requirements
              /\ context'.design_artifacts = context.design_artifacts]_vars

K_linked_requirements == <<"l", "i", "n", "k", "e", "d", "_", "r", "e", "q", "u", "i", "r", "e", "m", "e", "n", "t", "s">>

\* C10 happens: the two stories of a reply are the last two of the store,
\* the second linked to FR-999, an id no stored requirement set holds
C10_Witness ==
  /\ call.op = "generate_user_stories" /\ call.sent /\ result.exc = "none"
  /\ Len(context.requirements.v) = 1
  /\ LatestRequirementData = JsonLoads(REQS_A).val
  /\ Len(context.user_stories.v) >= 2
  /\ LET last == context.user_stories.v[Len(context.user_stories.v)]
     IN  /\ DictItem(last, K_id) = PyStr(<<"U", "S", "-", "0", "0", "3">>)
         /\ DictItem(DictItem(last, K_data), K_linked_requirements)
              = PyList(<<PyStr(<<"F", "R", "-", "9", "9", "9">>)>>)

\* C11: a step of an agent operation either ends in success, or leaves the
\* store exactly as it was before the call.
C11_NoPartialResults ==
  [][call'.op \in AgentOps
       => \/ result'.exc = "none" /\ ~IsFailureObject(result'.ret)
          \/ context' = context]_vars

BusinessAnalystOps == {"analyze_requirements", "generate_user_stories"}

ArchitectOps == {"generate_architecture_design", "generate_uml_class_diagram"}

\* the exchange of an agent over a call c of the agent: it is started, it
\* keeps what it held, and it gains the prompt of c and its reply exactly
\* when c reached the remote model
SameExchange(before, after, c) ==
  /\ after.started
  /\ IsPrefix(before.history, after.history)
  /\ Len(after.history) = Len(before.history) + (IF c.sent THEN 1 ELSE 0)
  /\ c.sent => /\ after.history[Len(after.history)].prompt.template = c.op
               /\ after.history[Len(after.history)].reply = c.reply

\* C12: every operation of an agent, parsed or not, sends into the one
\* exchange of its agent: the exchange is started at the first operation,
\* never reset afterwards, grows by one prompt and reply per remote call, and
\* a step of one agent leaves the exchange of the other alone.
C12_OneExchangePerAgent ==
  [][/\ call'.op \in BusinessAnalystOps
          => SameExchange(ba_chat, ba_chat', call') /\ arch_chat' = arch_chat
     /\ call'.op \in ArchitectOps
          => SameExchange(arch_chat, arch_chat', call') /\ ba_chat' = ba_chat
     /\ call'.op \notin AgentOps
          => ba_chat' = ba_chat /\ arch_chat' = arch_chat]_vars

\* C12 happens: the analyst's exchange holds an analysis whose reply did not
\* parse and then a story generation, the architect's exchange one call
C12_Witness ==
  /\ Len(ba_chat.history) = 2
  /\ ba_chat.history[1].prompt.template = "analyze_requirements"
  /\ ~ParseReply(ba_chat.history[1].reply).ok
  /\ ba_chat.history[2].prompt.template = "generate_user_stories"
  /\ Len(arch_chat.history) = 1

\* C13: a call of verify_design returns a value, a failure object or a
\* report, and never raises.
C13_VerifyDesignReturns == call.op = "verify_design" => result.exc = "none"

\* the rendering service did not give an image
Failed(response) == response.raised \/ response.status_code # 200

\* C14: in a run of the page that asks the rendering service for a diagram
\* and gets a status other than success or a transport error, the run ends
\* without an exception, the panel of the diagram shows the text that was
\* generated and no image, and the store and the artifacts of the session
\* are as before; the other diagram is treated on its own.
C14_RenderingFailureIsRecoverable ==
  [][(call'.op = "main" /\ OverviewTab(session.architecture).exc = "none")
       => LET arch_code == generate_architecture_diagram_mermaid(session.architecture)
              uml_code == generate_uml_diagram_mermaid(session.uml_diagram)
          IN  /\ (arch_code.exc = "none" /\ Failed(call'.arg.v[1]))
                   => /\ result'.exc = "none"
                      /\ page'.arch.code = arch_code.ret
                      /\ page'.arch.image = PyNone
                      /\ context' = context /\ session' = session
              /\ (uml_code.exc = "none" /\ Failed(call'.arg.v[2]))
                   => /\ result'.exc = "none"
                      /\ page'.uml.code = uml_code.ret
                      /\ page'.uml.image = PyNone
                      /\ context' = context /\ session' = session]_vars

\* C14 happens: the service answered 503 for the architecture diagram and
\* did not answer for the class diagram, and both texts are shown
C14_Witness ==
  /\ call.op = "main" /\ result.exc = "none"
  /\ call.arg.v[1].status_code = 503 /\ call.arg.v[2].raised
  /\ page.arch.code # PyNone /\ page.arch.warning /\ page.arch.image = PyNone
  /\ page.uml.code # PyNone /\ page.uml.warning /\ page.uml.image = PyNone
  /\ session.architecture = Architecture(5, PyDict(<<>>))

(***************************************************************************)
(* Reading a diagram text: its nodes, edges and style directives           *)
(***************************************************************************)
\* the first position of p in s, or 0
Find(s, p) ==
  LET hits == {i \in 1..Len(s) : HasAt(s, i, p)}
  IN  IF hits = {} THEN 0 ELSE CHOOSE i \in hits : \A j \in hits : i <= j

Contains(s, p) == Find(s, p) # 0

EndsWith(s, p) == Len(p) <= Len(s) /\ HasAt(s, Len(s) - Len(p) + 1, p)

INDENT == <<" ", " ", " ", " ">>

SOLID == <<" ", "-", "-", ">", " ">>

DASHED == <<" ", "-", ".", "-", ">", " ">>

Edge(from, to, dashed) == [from |-> from, to |-> to, dashed |-> dashed]

IsEdgeLine(line) == Contains(line, SOLID) \/ Contains(line, DASHED)

EdgeOfLine(line) ==
  LET arrow == IF Contains(line, SOLID) THEN SOLID ELSE DASHED
      at == Find(line, arrow)
  IN  Edge(SubSeq(line, Len(INDENT) + 1, at - 1),
           SubSeq(line, at + Len(arrow), Len(line)),
           arrow = DASHED)

\* the edges of a diagram, in the order of the text
EdgesOf(lines) ==
  LET edge_lines == SelectSeq(lines, IsEdgeLine)
  IN  [i \in 1..Len(edge_lines) |-> EdgeOfLine(edge_lines[i])]

IsNodeLine(line) == Contains(line, <<"[">>)

\* the identifiers of the nodes a diagram declares
NodesOf(lines) ==
  {SubSeq(lines[i], Len(INDENT) + 1, Find(lines[i], <<"[">>) - 1) :
     i \in {j \in 1..Len(lines) : IsNodeLine(lines[j])}}

STYLE == <<" ", " ", " ", " ", "c", "l", "a", "s", "s", " ">>

\* the nodes the style directives of a diagram name
StyledOf(lines) ==
  {LET rest == DropFirst(lines[i], Len(STYLE))
   IN  SubSeq(rest, 1, Find(rest, <<" ">>) - 1) :
     i \in {j \in 1..Len(lines) : StartsWith(lines[j], STYLE)}}

\* the run of the page shows the text of the architecture diagram
ArchShown == call.op = "main" /\ page.arch.code # PyNone

ComponentsShown == DictGet(session.architecture, K_components, PyList(<<>>)).v

DatabasesShown ==
  DictGet(DictGet(session.architecture, K_data_storage, PyDict(<<>>)),
          K_databases, PyList(<<>>)).v

IntoDatabase(edge) == edge.to = DB

AmongComponents(edge) == edge.to # DB

\* the component edges of the edge policy, for n components
PolicyEdges(n) ==
  IF n > 3
  THEN [i \in 1..Min(4, n) |-> Edge(NodeId(i - 1), NodeId(Min(4, n - 1)), FALSE)]
         \o [i \in 1..(n - 5) |-> Edge(NodeId(i + 3), NodeId(i + 4), TRUE)]
  ELSE [i \in 1..(n - 1) |-> Edge(NodeId(i - 1), NodeId(i), FALSE)]

\* C15: the edges among the n components of a shown architecture diagram
\* are those of the edge policy, and with 5 components and one declared
\* database the diagram has one edge more than the policy gives.
C15_EdgesFollowTheTiers ==
  ArchShown
    => LET n == Len(ComponentsShown)
           edges == EdgesOf(page.arch.code.v)
       IN  /\ SelectSeq(edges, AmongComponents) = PolicyEdges(n)
           /\ (n = 5 /\ Len(DatabasesShown) = 1)
                => Len(edges) = Len(PolicyEdges(n)) + 1

\* the edges into the database node, for n components
StorageEdges(n) ==
  IF n >= 5
  THEN [i \in 1..(Min(n, 8) - 4) |-> Edge(NodeId(i + 3), DB, FALSE)]
  ELSE IF n >= 1 THEN <<Edge(NodeId(n - 1), DB, FALSE)>> ELSE <<>>

IsDatabaseNode(line) == StartsWith(line, INDENT \o DB \o <<"[">>)

\* C16: a shown architecture diagram has a database node exactly when the
\* architecture declares a database, labelled with the first one declared,
\* and the edges into it come from the components 4..min(n,8)-1 when there
\* are 5 components or more, from the last component when there are fewer.
C16_DatabaseNodeAndItsEdges ==
  ArchShown
    => LET n == Len(ComponentsShown)
           lines == page.arch.code.v
           into_db == SelectSeq(EdgesOf(lines), IntoDatabase)
       IN  IF DatabasesShown = <<>>
           THEN SelectSeq(lines, IsDatabaseNode) = <<>> /\ into_db = <<>>
           ELSE /\ SelectSeq(lines, IsDatabaseNode)
                     = <<INDENT \o DB \o <<"[", "(", "\"">> \o DatabasesShown[1].v
                           \o <<"\"", ")", "]">> >>
                /\ into_db = StorageEdges(n)

\* C20: in a shown architecture diagram every end of an edge and every
\* node a style directive names is a node the diagram declares.
C20_EveryEndpointIsDeclared ==
  ArchShown
    => LET lines == page.arch.code.v
           edges == EdgesOf(lines)
       IN  /\ \A i \in 1..Len(edges) :
                edges[i].from \in NodesOf(lines) /\ edges[i].to \in NodesOf(lines)
           /\ StyledOf(lines) \subseteq NodesOf(lines)

(***************************************************************************)
(* Reading a class diagram text                                            *)
(***************************************************************************)
OPEN == <<" ", "{">>

Arrows == {<<" ", "<", "|", "-", "-", " ">>, <<" ", "*", "-", "-", " ">>, <<" ", "o", "-", "-", " ">>, <<" ", "-", "-", ">", " ">>}

IsClassLine(line) == StartsWith(line, STYLE) /\ EndsWith(line, OPEN)

IsRelationshipLine(line) == \E arrow \in Arrows : Contains(line, arrow)

\* the class names of the class blocks of a text, in its order
ClassNamesOf(lines) ==
  LET class_lines == SelectSeq(lines, IsClassLine)
  IN  [i \in 1..Len(class_lines) |->
         SubSeq(class_lines[i], Len(STYLE) + 1, Len(class_lines[i]) - Len(OPEN))]

\* the two class names of each relationship line of a text, in its order
EndsOf(lines) ==
  LET rel_lines == SelectSeq(lines, IsRelationshipLine)
      Ends(line) ==
        LET arrow == CHOOSE a \in Arrows : Contains(line, a)
            at == Find(line, arrow)
        IN  {SubSeq(line, Len(INDENT) + 1, at - 1),
             SubSeq(line, at + Len(arrow), Len(line))}
  IN  [i \in 1..Len(rel_lines) |-> Ends(rel_lines[i])]

\* a text without its characters that are no letter and no digit
OnlyAlnum(text) == SelectSeq(text, LAMBDA c : c \in Letters \cup Digit)

\* a text without its spaces
WithoutSpaces(text) == SelectSeq(text, LAMBDA c : c # " ")

\* the class names a class diagram text of uml_data holds are the names of
\* uml_data without their non-alphanumeric characters
NamesAreSanitized(lines, uml_data) ==
  LET classes == DictGet(uml_data, K_classes, PyList(<<>>)).v
      relationships == DictGet(uml_data, K_relationships, PyList(<<>>)).v
      names == ClassNamesOf(lines)
      ends == EndsOf(lines)
  IN  /\ names = [i \in 1..Len(classes) |-> OnlyAlnum(DictItem(classes[i], K_name).v)]
      /\ ends = [i \in 1..Len(relationships) |->
                   {OnlyAlnum(DictItem(relationships[i], K_from).v),
                    OnlyAlnum(DictItem(relationships[i], K_to).v)}]
      /\ \A i \in 1..Len(names) : OnlyAlnum(names[i]) = names[i]
      /\ \A i \in 1..Len(ends) : \A name \in ends[i] : OnlyAlnum(name) = name

\* C17: every run of the page that shows the class diagram shows the same
\* text for the same artifact, and the class names of the text, in class
\* blocks and at the ends of relationships, are the names of the artifact
\* without their non-alphanumeric characters, which sanitizing again leaves
\* as they are.
C17_SanitizedAndRepeatable ==
  [][(call'.op = "main" /\ page'.uml.code # PyNone)
       => /\ NamesAreSanitized(page'.uml.code.v, session.uml_diagram)
          /\ (call.op = "main" /\ page.uml.code # PyNone)
               => page'.uml.code = page.uml.code]_vars

\* C17 happens: a run shows the class Order (Core) as OrderCore, and User-Account
\* as UserAccount at the end of a relationship
C17_Witness ==
  /\ call.op = "main" /\ page.uml.code # PyNone
  /\ page.uml.image # PyNone
  /\ \E i \in 1..Len(page.uml.code.v) :
       page.uml.code.v[i] = <<" ", " ", " ", " ", "c", "l", "a", "s", "s", " ", "O", "r", "d", "e", "r", "C", "o", "r", "e", " ", "{">>
  /\ \E i \in 1..Len(page.uml.code.v) :
       page.uml.code.v[i] = <<" ", " ", " ", " ", "U", "s", "e", "r", "A", "c", "c", "o", "u", "n", "t", " ", "<", "|", "-", "-", " ", "O", "r", "d", "e", "r", "C", "o", "r", "e">>

\* the run of the page shows the text of the class diagram
UmlShown == call.op = "main" /\ page.uml.code # PyNone

ClassesShown == DictGet(session.uml_diagram, K_classes, PyList(<<>>)).v

\* '+' for the visibility public, '-' for any other and for none
Marker(member) ==
  IF HasKey(member, K_visibility)
       /\ DictItem(member, K_visibility) = PyStr(<<"p", "u", "b", "l", "i", "c">>)
  THEN "+" ELSE "-"

\* the text of a member under key, or the text that stands for a missing one
Field(member, key, missing) ==
  IF HasKey(member, key) THEN DictItem(member, key).v ELSE missing

MEMBER_INDENT == <<" ", " ", " ", " ", " ", " ", " ", " ">>

\* the block of a class as the specification words it, the texts of the
\* members cleaned by Clean
BlockOf(cls, Clean(_)) ==
  LET attributes == DictGet(cls, K_attributes, PyList(<<>>)).v
      methods == DictGet(cls, K_methods, PyList(<<>>)).v
  IN  <<STYLE \o OnlyAlnum(DictItem(cls, K_name).v) \o OPEN>>
        \o [i \in 1..Min(5, Len(attributes)) |->
              MEMBER_INDENT \o <<Marker(attributes[i])>>
                \o Clean(Field(attributes[i], K_type, <<"S", "t", "r", "i", "n", "g">>)) \o <<" ">>
                \o Clean(Field(attributes[i], K_name, <<"a", "t", "t", "r", "i", "b", "u", "t", "e">>))]
        \o [i \in 1..Min(5, Len(methods)) |->
              MEMBER_INDENT \o <<Marker(methods[i])>>
                \o Clean(Field(methods[i], K_name, <<"m", "e", "t", "h", "o", "d">>)) \o <<"(", ")", " ">>
                \o Clean(Field(methods[i], K_return_type, <<"v", "o", "i", "d">>))]
        \o <<<<" ", " ", " ", " ", "}">>>>

\* the class blocks of the shown text are those of BlockOf
BlocksAre(Clean(_)) ==
  LET blocks == Flatten([i \in 1..Len(ClassesShown) |-> BlockOf(ClassesShown[i], Clean)])
  IN  SubSeq(page.uml.code.v, 2, 1 + Len(blocks)) = blocks

\* C18 as stated: each class block lists the first 5 attributes and the
\* first 5 methods in declaration order, a line being the visibility
\* marker and the type and name, or name and return type, sanitized to
\* their alphanumeric characters.
C18_MembersSanitized == UmlShown => BlocksAre(OnlyAlnum)

\* C18, amended: each class block lists the first 5 attributes and the
\* first 5 methods in declaration order, a line being the visibility
\* marker and the type and name, or name and return type, without their
\* spaces and otherwise as declared; String, attribute, method and void
\* stand for a missing type, attribute name, method name and return type.
C18_MembersWithoutSpaces == UmlShown => BlocksAre(WithoutSpaces)

\* C18 happens: a class of 6 attributes and 6 methods is shown with 5 of
\* each, among them the attribute user_id of type List<String>
C18_Witness ==
  /\ UmlShown
  /\ Len(ClassesShown) = 1
  /\ Len(DictItem(ClassesShown[1], K_attributes).v) = 6
  /\ Len(DictItem(ClassesShown[1], K_methods).v) = 6
  /\ Len(page.uml.code.v) = 13
  /\ page.uml.code.v[4] = <<" ", " ", " ", " ", " ", " ", " ", " ", "+", "L", "i", "s", "t", "<", "S", "t", "r", "i", "n", "g", ">", " ", "u", "s", "e", "r", "_", "i", "d">>
  /\ page.uml.code.v[9] = <<" ", " ", " ", " ", " ", " ", " ", " ", "-", "a", "d", "d", "i", "t", "e", "m", "(", ")", " ", "O", "p", "t", "i", "o", "n", "a", "l", "[", "O", "r", "d", "e", "r", "I", "t", "e", "m", "]">>

\* the line of a relationship as the specification words it
ArrowLine(rel) ==
  LET from == OnlyAlnum(DictItem(rel, K_from).v)
      to == OnlyAlnum(DictItem(rel, K_to).v)
      type == IF HasKey(rel, K_type) THEN DictItem(rel, K_type).v ELSE <<>>
  IN  INDENT \o
      (CASE type = <<"i", "n", "h", "e", "r", "i", "t", "a", "n", "c", "e">> -> to \o <<" ", "<", "|", "-", "-", " ">> \o from
         [] type = <<"c", "o", "m", "p", "o", "s", "i", "t", "i", "o", "n">> -> from \o <<" ", "*", "-", "-", " ">> \o to
         [] type = <<"a", "g", "g", "r", "e", "g", "a", "t", "i", "o", "n">> -> from \o <<" ", "o", "-", "-", " ">> \o to
         [] OTHER -> from \o <<" ", "-", "-", ">", " ">> \o to)

\* C19: the shown class diagram ends with one line per relationship of the
\* artifact, in the order of the artifact and with the arrow of its type,
\* and has no other line with an arrow.
C19_OneLinePerRelationship ==
  UmlShown
    => LET relationships == DictGet(session.uml_diagram, K_relationships, PyList(<<>>)).v
           lines == page.uml.code.v
       IN  /\ Len(relationships) <= Len(lines)
           /\ SubSeq(lines, Len(lines) - Len(relationships) + 1, Len(lines))
                = [i \in 1..Len(relationships) |-> ArrowLine(relationships[i])]
           /\ SelectSeq(lines, IsRelationshipLine)
                = [i \in 1..Len(relationships) |-> ArrowLine(relationships[i])]

\* C19 happens: an inheritance and a relationship without a type are shown
C19_Witness ==
  /\ UmlShown
  /\ Len(page.uml.code.v) >= 2
  /\ LET lines == page.uml.code.v
     IN  /\ lines[Len(lines) - 1] = <<" ", " ", " ", " ", "U", "s", "e", "r", "A", "c", "c", "o", "u", "n", "t", " ", "<", "|", "-", "-", " ", "O", "r", "d", "e", "r", "C", "o", "r", "e">>
         /\ lines[Len(lines)] = <<" ", " ", " ", " ", "C", "a", "r", "t", "2", " ", "-", "-", ">", " ", "O", "r", "d", "e", "r", "C", "o", "r", "e">>

\* C21: whenever the session holds a requirements result and a user-stories
\* result that is no failure object, the user stories are the reply to a
\* prompt of the latest click, and that prompt held the requirements result
\* of the session.
C21_StoriesOfTheSameClick ==
  (/\ session.requirements # PyNone
   /\ session.user_stories # PyNone
   /\ ~IsFailureObject(session.user_stories))
    => /\ Len(ba_chat.history) = 2
       /\ ba_chat.history[2].prompt.template = "generate_user_stories"
       /\ ParseReply(ba_chat.history[2].reply).val = session.user_stories
       /\ ba_chat.history[2].prompt.embedded = JsonDumps(session.requirements, 0)

\* C22: a click on "Generate Architecture" happens only when the store
\* holds a requirement set, and the architecture it leaves in the session
\* is never the failure object for missing requirements.
C22_DesignOnlyAfterAnalysis ==
  [][call'.op = "design_btn"
       => /\ Truthy(get_requirements(context))
          /\ session'.architecture # PreconditionFailure(MSG_NO_REQUIREMENTS)]_vars
====
